---- MODULE Spec2Model ----
(***************************************************************************)
(* mksite: the page renderer of src/main.c (line classifier, paragraph and *)
(* code-block collection, inline renderer, build_page / build_pages), the  *)
(* helpers slugify and format_date, the collectors and the closers called  *)
(* on their own, and main with import_pages and build_index, as state      *)
(* machines.                                                               *)
(*                                                                         *)
(* A byte is a one-character string, a C string is the sequence of its     *)
(* bytes (the terminating NUL is the position after the last element), and *)
(* a pointer into a string is a 0-based offset.  Everything written to a   *)
(* FILE* is the sequence of the pieces written: one element per literal    *)
(* piece of a format string and one per byte of text.                      *)
(***************************************************************************)
EXTENDS Integers, Sequences, FiniteSets, TLC

VARIABLES
    pc,         \* where build_pages / build_page stands
    i,          \* build_pages: index of the page being built
    page,       \* the Page being built: title, slug, date, content
    cursor,     \* build_page: offset of the cursor in page.content
    page_count, \* build_pages: the number of pages
    state,      \* build_page: the ParseState
    out,        \* what has been written to the page's FILE*
    dispatched, \* one entry per iteration of build_page's main loop so far
    call,       \* a helper under test and its arguments
    ret,        \* what the helper returned (pending before the call)
    arena,      \* main: the arena memory where import_pages lays the Page array
    site        \* main: the directory at hand, ./public/index.html, the exit code

vars == <<pc, i, page_count, page, cursor, state, out, dispatched, call, ret, arena, site>>

(***************************************************************************)
(* Bounds of the model.                                                    *)
(***************************************************************************)
MaxLines == 3        \* lines of one page body
MaxNoteLines == 2    \* lines of a page body, where pages are built in a row
MaxPages == 2        \* pages handed to build_pages
MaxTitleLen == 5     \* bytes of a title handed to slugify
MaxOutSize == 4      \* largest output_size handed to slugify
MaxLineLen == 4      \* bytes of a line handed to the classifier
MaxFiles == 2        \* .txt files in one directory of ./content
MaxBufSize == 5      \* largest out_size handed to the collectors

(***************************************************************************)
(* Program constants.                                                      *)
(***************************************************************************)
BUFFER_SIZE == 8192
U8Mod == 256

(***************************************************************************)
(* Bytes and <ctype.h> in the C locale.                                    *)
(***************************************************************************)
UpperSeq == <<"A","B","C","D","E","F","G","H","I","J","K","L","M",
              "N","O","P","Q","R","S","T","U","V","W","X","Y","Z">>
LowerSeq == <<"a","b","c","d","e","f","g","h","i","j","k","l","m",
              "n","o","p","q","r","s","t","u","v","w","x","y","z">>
DigitSeq == <<"0","1","2","3","4","5","6","7","8","9">>

Range(s) == { s[k] : k \in DOMAIN s }

isdigit(c) == c \in Range(DigitSeq)
isalnum(c) == c \in Range(DigitSeq) \cup Range(UpperSeq) \cup Range(LowerSeq)
isspace(c) == c \in {" ", "\t", "\n", "\r"}
tolower(c) ==
    IF c \in Range(UpperSeq)
    THEN LowerSeq[CHOOSE k \in DOMAIN UpperSeq : UpperSeq[k] = c]
    ELSE c

\* The byte 0x60, which a TLA+ string literal cannot hold.
Backtick == "0x60"

At(s, k) == s[k + 1]                      \* C's s[k]
Rep(c, n) == [k \in 1..n |-> c]
Min(a, b) == IF a < b THEN a ELSE b

(***************************************************************************)
(* The line classifier (main.c 246-285).  A line is the bytes from the     *)
(* cursor up to, not including, the next newline or NUL.                 *)
(***************************************************************************)
is_blank_line(line, len) ==
    \A k \in 0..(len - 1) : At(line, k) \in {" ", "\t"}

is_code_fence(line, len) ==
    len >= 3 /\ At(line, 0) = Backtick /\ At(line, 1) = Backtick /\ At(line, 2) = Backtick

\* The offset of the first byte at or after k that is not in keep, or len.
SkipWhile(line, len, k, keep) ==
    LET stops == { n \in k..len : n = len \/ At(line, n) \notin keep }
    IN  CHOOSE n \in stops : \A m \in stops : n <= m

\* The offset of the first byte c at or after k, or len.
FindByte(line, len, k, c) ==
    LET stops == { n \in k..len : n = len \/ At(line, n) = c }
    IN  CHOOSE n \in stops : \A m \in stops : n <= m

\* get_heading_level's loop, level being a u8.  With fewer than 256 leading
\* '#' it ends with level their number.  With 256 or more, ++level takes 255
\* to 0 and the loop is back in the state it started in (level = 0,
\* line[0] = '#', 0 < len), so it never exits: Diverges.
Diverges == -1

heading_scan(line, len) ==
    LET hashes == SkipWhile(line, len, 0, { "#" })
    IN  IF hashes < U8Mod THEN hashes ELSE Diverges

\* A faulty level, which does not ask for the space after the hashes.
get_heading_level_bare(line, len) ==
    LET level == heading_scan(line, len)
    IN  IF level = Diverges THEN Diverges
        ELSE IF level > 0 /\ level <= 6 THEN level
        ELSE 0

get_heading_level(line, len) ==
    LET level == heading_scan(line, len)
    IN  IF level = Diverges THEN Diverges
        ELSE IF level > 0 /\ level <= 6 /\ level < len /\ At(line, level) = " "
             THEN level
             ELSE 0

is_unordered_list_item(line, len) ==
    len >= 2 /\ At(line, 0) = "-" /\ At(line, 1) = " "

digit_scan(line, len, k) == SkipWhile(line, len, k, Range(DigitSeq))

is_ordered_list_item(line, len) ==
    LET k == digit_scan(line, len, 0)
    IN  k > 0 /\ k + 1 < len /\ At(line, k) = "." /\ At(line, k + 1) = " "

\* strchr(cursor, NL) - cursor, or strlen(cursor)
get_line_len(content, cur) == FindByte(content, Len(content), cur, "\n") - cur

LineAt(content, cur) == SubSeq(content, cur + 1, cur + get_line_len(content, cur))

\* The cursor after: cursor += line_len; if (*cursor == NL) cursor++;
SkipLine(content, cur, line_len) ==
    IF cur + line_len < Len(content) /\ At(content, cur + line_len) = "\n"
    THEN cur + line_len + 1
    ELSE cur + line_len

get_list_item_offset(line, len) ==
    IF is_unordered_list_item(line, len) THEN 2
    ELSE IF is_ordered_list_item(line, len) THEN digit_scan(line, len, 0) + 2
    ELSE 0

\* The branch build_page's main loop takes for a line (the order of its tests).
line_kind(line, len) ==
    IF len = 0 \/ is_blank_line(line, len) THEN "blank"
    ELSE IF is_code_fence(line, len) THEN "fence"
    ELSE IF get_heading_level(line, len) = Diverges THEN "hang"
    ELSE IF get_heading_level(line, len) > 0 THEN "heading"
    ELSE IF is_unordered_list_item(line, len) THEN "ul"
    ELSE IF is_ordered_list_item(line, len) THEN "ol"
    ELSE "paragraph"

(***************************************************************************)
(* Block collection (main.c 289-373).  The result holds the bytes put in   *)
(* the scratch buffer, the cursor after the call, and whether a classifier *)
(* call never returned.                                                    *)
(***************************************************************************)
\* How many bytes of a line of line_len bytes fit after out_len bytes.
\* A faulty length, which copies the whole line whatever room is left.
copy_len_whole(out_len, line_len, out_size) == line_len

copy_len(out_len, line_len, out_size) ==
    IF out_len + line_len < out_size - 1 THEN line_len ELSE out_size - 1 - out_len

\* A faulty separator: none.
para_join_none(buf, first_line, out_size) == buf

\* The buffer after the separator collect_paragraph puts before a line.
para_join(buf, first_line, out_size) ==
    IF ~first_line /\ Len(buf) < out_size - 1 THEN Append(buf, " ") ELSE buf

\* Whether collect_paragraph stops before this line, takes it, or never gets
\* an answer from get_heading_level.
para_stop(line, line_len) ==
    IF line_len = 0 \/ is_blank_line(line, line_len) THEN "stop"
    ELSE IF is_code_fence(line, line_len) THEN "stop"
    ELSE IF get_heading_level(line, line_len) = Diverges THEN "hang"
    ELSE IF get_heading_level(line, line_len) > 0 THEN "stop"
    ELSE IF is_unordered_list_item(line, line_len) THEN "stop"
    ELSE IF is_ordered_list_item(line, line_len) THEN "stop"
    ELSE "take"

RECURSIVE collect_paragraph_loop(_, _, _, _, _)
collect_paragraph_loop(content, cur, out_size, buf, first_line) ==
    IF cur >= Len(content)
    THEN [text |-> buf, cursor |-> cur, hang |-> FALSE]
    ELSE LET line_len == get_line_len(content, cur)
             line == LineAt(content, cur)
             what == para_stop(line, line_len)
             joined == para_join(buf, first_line, out_size)
             n == copy_len(Len(joined), line_len, out_size)
         IN  IF what = "stop" THEN [text |-> buf, cursor |-> cur, hang |-> FALSE]
             ELSE IF what = "hang" THEN [text |-> buf, cursor |-> cur, hang |-> TRUE]
             ELSE collect_paragraph_loop(content, SkipLine(content, cur, line_len),
                                         out_size, joined \o SubSeq(line, 1, n), FALSE)

collect_paragraph(content, cur, out_size) ==
    collect_paragraph_loop(content, cur, out_size, <<>>, TRUE)

\* The buffer after a code line: its bytes, and the newline if one was consumed
\* and still fits.
code_append(buf, line, line_len, had_newline, out_size) ==
    LET n == copy_len(Len(buf), line_len, out_size)
        copied == buf \o SubSeq(line, 1, n)
    IN  IF had_newline /\ Len(copied) < out_size - 1
        THEN Append(copied, "\n")
        ELSE copied

\* Remove trailing newline if present.
code_finish(buf) ==
    IF Len(buf) > 0 /\ buf[Len(buf)] = "\n" THEN SubSeq(buf, 1, Len(buf) - 1) ELSE buf

RECURSIVE collect_code_block_loop(_, _, _, _)
collect_code_block_loop(content, cur, out_size, buf) ==
    IF cur >= Len(content)
    THEN [text |-> code_finish(buf), cursor |-> cur]
    ELSE LET line_len == get_line_len(content, cur)
             line == LineAt(content, cur)
             next == SkipLine(content, cur, line_len)
         IN  IF is_code_fence(line, line_len)
             THEN [text |-> code_finish(buf), cursor |-> next]
             ELSE collect_code_block_loop(content, next, out_size,
                      code_append(buf, line, line_len, next > cur + line_len, out_size))

collect_code_block(content, cur, out_size) ==
    collect_code_block_loop(content, cur, out_size, <<>>)

(***************************************************************************)
(* The inline renderer (main.c 516-673).                                   *)
(***************************************************************************)
get_format_type(text, pos, len) ==
    IF pos + 1 < len /\ At(text, pos) = "*" /\ At(text, pos + 1) = "*" THEN "BOLD"
    ELSE IF pos + 1 < len /\ At(text, pos) = "_" /\ At(text, pos + 1) = "_" THEN "ITALIC"
    ELSE IF pos + 1 < len /\ At(text, pos) = "=" /\ At(text, pos + 1) = "=" THEN "HIGHLIGHT"
    ELSE IF At(text, pos) = Backtick /\ pos + 1 < len /\ At(text, pos + 1) # Backtick
         THEN "INLINE_CODE"
    ELSE IF pos + 2 < len /\ At(text, pos) = "^" /\ At(text, pos + 1) = "-"
            /\ At(text, pos + 2) = "[" THEN "MARGIN_NOTE"
    ELSE IF pos + 1 < len /\ At(text, pos) = "^" /\ At(text, pos + 1) = "[" THEN "SIDENOTE"
    ELSE "NONE"

\* A faulty escape, which writes every byte as it is.
escape_byte_raw(c) == c

escape_byte(c) ==
    IF c = "<" THEN "&lt;" ELSE IF c = ">" THEN "&gt;" ELSE IF c = "&" THEN "&amp;" ELSE c

write_html_escaped(text, len) == [k \in 1..len |-> escape_byte(text[k])]

RECURSIVE find_closing_bracket_loop(_, _, _, _)
find_closing_bracket_loop(text, k, len, depth) ==
    IF k >= len THEN len
    ELSE IF At(text, k) = "[" THEN find_closing_bracket_loop(text, k + 1, len, depth + 1)
    ELSE IF At(text, k) = "]"
         THEN IF depth - 1 = 0 THEN k
              ELSE find_closing_bracket_loop(text, k + 1, len, depth - 1)
    ELSE find_closing_bracket_loop(text, k + 1, len, depth)

\* A faulty search, which takes the first closing bracket whatever the depth.
find_closing_bracket_first(text, start, len) == FindByte(text, len, start, "]")

find_closing_bracket(text, start, len) == find_closing_bracket_loop(text, start, len, 1)

\* A faulty search, which takes the last backtick at or after j.
find_backtick_last(text, j, len) ==
    LET ticks == { n \in j..(len - 1) : At(text, n) = Backtick }
    IN  IF ticks = {} THEN len ELSE CHOOSE n \in ticks : \A m \in ticks : n >= m

\* The first backtick at or after j, or len.
RECURSIVE find_backtick(_, _, _)
find_backtick(text, j, len) ==
    IF j < len /\ At(text, j) # Backtick THEN find_backtick(text, j + 1, len) ELSE j

\* printf's %u, as one string.
RECURSIVE Decimal(_)
Decimal(n) ==
    IF n < 10 THEN DigitSeq[n + 1] ELSE Decimal(n \div 10) \o DigitSeq[(n % 10) + 1]

\* ++state->sidenote_id
next_note_id(sidenote_id) == sidenote_id + 1

\* A faulty delimiter, which writes the opening tag whatever the toggle is.
toggle_tag_open(open, open_tag, close_tag) == open_tag

\* What a toggle delimiter writes: the closing tag if the toggle is open.
toggle_tag(open, open_tag, close_tag) == IF open THEN close_tag ELSE open_tag

\* A faulty end of slice, which leaves the open toggles open.
close_toggles_unclosed(in_bold, in_italic, in_highlight) == <<>>

\* What the end of write_formatted_content writes for the toggles still open.
close_toggles(in_bold, in_italic, in_highlight) ==
    (IF in_bold THEN <<"</strong>">> ELSE <<>>)
    \o (IF in_italic THEN <<"</em>">> ELSE <<>>)
    \o (IF in_highlight THEN <<"</mark>">> ELSE <<>>)

\* The three fprintf calls that open a note, one string each.
sidenote_open(id) ==
    << "<label for=\"sn-" \o Decimal(id) \o "\" class=\"margin-toggle sidenote-number\"></label>",
       "<input type=\"checkbox\" id=\"sn-" \o Decimal(id) \o "\" class=\"margin-toggle\"/>",
       "<span class=\"sidenote\">" >>

margin_note_open(id) ==
    << "<label for=\"mn-" \o Decimal(id) \o "\" class=\"margin-toggle\">&#8853;</label>",
       "<input type=\"checkbox\" id=\"mn-" \o Decimal(id) \o "\" class=\"margin-toggle\"/>",
       "<span class=\"marginnote\">" >>

note_open(kind, id) ==
    IF kind = "SIDENOTE" THEN sidenote_open(id) ELSE margin_note_open(id)

\* write_formatted_content's loop from position k on.  The result is what was
\* written and state->sidenote_id afterwards.
RECURSIVE wfc_loop(_, _, _, _, _, _, _, _)
RECURSIVE write_note(_, _, _, _)

wfc_loop(text, len, k, in_bold, in_italic, in_highlight, sid, acc) ==
    IF k >= len
    THEN [out |-> acc \o close_toggles(in_bold, in_italic, in_highlight),
          sidenote_id |-> sid]
    ELSE LET fmt == get_format_type(text, k, len) IN
         CASE fmt = "BOLD" ->
                wfc_loop(text, len, k + 2, ~in_bold, in_italic, in_highlight, sid,
                         Append(acc, toggle_tag(in_bold, "<strong>", "</strong>")))
           [] fmt = "ITALIC" ->
                wfc_loop(text, len, k + 2, in_bold, ~in_italic, in_highlight, sid,
                         Append(acc, toggle_tag(in_italic, "<em>", "</em>")))
           [] fmt = "HIGHLIGHT" ->
                wfc_loop(text, len, k + 2, in_bold, in_italic, ~in_highlight, sid,
                         Append(acc, toggle_tag(in_highlight, "<mark>", "</mark>")))
           [] fmt = "INLINE_CODE" ->
                LET j == find_backtick(text, k + 1, len) IN
                IF j < len
                THEN wfc_loop(text, len, j + 1, in_bold, in_italic, in_highlight, sid,
                              acc \o <<"<code>">> \o SubSeq(text, k + 2, j) \o <<"</code>">>)
                ELSE wfc_loop(text, len, k + 1, in_bold, in_italic, in_highlight, sid,
                              Append(acc, At(text, k)))
           [] fmt \in {"SIDENOTE", "MARGIN_NOTE"} ->
                LET content_start == IF fmt = "SIDENOTE" THEN k + 2 ELSE k + 3
                    close == find_closing_bracket(text, content_start, len)
                    note == write_note(fmt, SubSeq(text, content_start + 1, close),
                                       close - content_start, sid)
                IN  IF close < len
                    THEN wfc_loop(text, len, close + 1, in_bold, in_italic, in_highlight,
                                  note.sidenote_id, acc \o note.out)
                    ELSE wfc_loop(text, len, k + 1, in_bold, in_italic, in_highlight, sid,
                                  Append(acc, At(text, k)))
           [] OTHER ->
                wfc_loop(text, len, k + 1, in_bold, in_italic, in_highlight, sid,
                         Append(acc, At(text, k)))

\* write_sidenote / write_margin_note.
write_note(kind, content, content_len, sid) ==
    LET id == next_note_id(sid)
        inner == wfc_loop(content, content_len, 0, FALSE, FALSE, FALSE, id, <<>>)
    IN  [out |-> note_open(kind, id) \o inner.out \o <<"</span>">>,
         sidenote_id |-> inner.sidenote_id]

write_formatted_content(text, len, sid) ==
    wfc_loop(text, len, 0, FALSE, FALSE, FALSE, sid, <<>>)

(***************************************************************************)
(* slugify (main.c 222-244).                                               *)
(***************************************************************************)
\* A faulty start, which lets a dash lead the slug.
slug_prev_was_dash_false == FALSE

\* bool prev_was_dash = true;
slug_prev_was_dash == TRUE

RECURSIVE slugify_loop(_, _, _, _, _)
slugify_loop(input, k, output_size, output, prev_was_dash) ==
    IF k >= Len(input) \/ ~(Len(output) < output_size - 1)
    THEN output
    ELSE LET c == At(input, k) IN
         IF isalnum(c)
         THEN slugify_loop(input, k + 1, output_size, Append(output, tolower(c)), FALSE)
         ELSE IF ~prev_was_dash
              THEN slugify_loop(input, k + 1, output_size, Append(output, "-"), TRUE)
              ELSE slugify_loop(input, k + 1, output_size, output, prev_was_dash)

\* A faulty trim, which drops the last byte whatever it is.
slug_trim_always(output) ==
    IF Len(output) > 0 THEN SubSeq(output, 1, Len(output) - 1) ELSE output

\* Remove trailing dash.
slug_trim(output) ==
    IF Len(output) > 0 /\ output[Len(output)] = "-"
    THEN SubSeq(output, 1, Len(output) - 1)
    ELSE output

slugify(input, output_size) ==
    slug_trim(slugify_loop(input, 0, output_size, <<>>, slug_prev_was_dash))

(***************************************************************************)
(* format_date (main.c 151-198).                                           *)
(***************************************************************************)
MONTHS_FULL == <<
    <<"J","a","n","u","a","r","y">>,
    <<"F","e","b","r","u","a","r","y">>,
    <<"M","a","r","c","h">>,
    <<"A","p","r","i","l">>,
    <<"M","a","y">>,
    <<"J","u","n","e">>,
    <<"J","u","l","y">>,
    <<"A","u","g","u","s","t">>,
    <<"S","e","p","t","e","m","b","e","r">>,
    <<"O","c","t","o","b","e","r">>,
    <<"N","o","v","e","m","b","e","r">>,
    <<"D","e","c","e","m","b","e","r">> >>

MONTHS_ABBR == <<
    <<"J","a","n">>,
    <<"F","e","b">>,
    <<"M","a","r">>,
    <<"A","p","r">>,
    <<"M","a","y">>,
    <<"J","u","n">>,
    <<"J","u","l">>,
    <<"A","u","g">>,
    <<"S","e","p">>,
    <<"O","c","t">>,
    <<"N","o","v">>,
    <<"D","e","c">> >>

RECURSIVE skip_space(_, _)
skip_space(s, k) == IF k < Len(s) /\ isspace(At(s, k)) THEN skip_space(s, k + 1) ELSE k

DigitValue(c) == (CHOOSE k \in DOMAIN DigitSeq : DigitSeq[k] = c) - 1

\* The digits from offset k on: their value and the offset after them.
RECURSIVE scan_digits(_, _, _)
scan_digits(s, k, val) ==
    IF k < Len(s) /\ isdigit(At(s, k))
    THEN scan_digits(s, k + 1, 10 * val + DigitValue(At(s, k)))
    ELSE [val |-> val, next |-> k]

\* sscanf's %d at offset k: white space is skipped, a sign may come first, and
\* at least one digit is needed.
scan_int(s, k) ==
    LET a == skip_space(s, k)
        signed == a < Len(s) /\ At(s, a) \in {"+", "-"}
        b == IF signed THEN a + 1 ELSE a
        r == scan_digits(s, b, 0)
    IN  [ok |-> r.next > b,
         val |-> IF signed /\ At(s, a) = "-" THEN 0 - r.val ELSE r.val,
         next |-> r.next]

\* A literal '-' of the format at offset k.
scan_dash(s, k) == k < Len(s) /\ At(s, k) = "-"

\* sscanf(iso_date, "%d-%d-%d", &year, &month, &day): the number of
\* conversions made and the values converted.
sscanf_date(s) ==
    LET y == scan_int(s, 0)
        m == scan_int(s, y.next + 1)
        d == scan_int(s, m.next + 1)
    IN  IF ~y.ok THEN [n |-> 0, year |-> 0, month |-> 0, day |-> 0]
        ELSE IF ~scan_dash(s, y.next) \/ ~m.ok
             THEN [n |-> 1, year |-> y.val, month |-> 0, day |-> 0]
        ELSE IF ~scan_dash(s, m.next) \/ ~d.ok
             THEN [n |-> 2, year |-> y.val, month |-> m.val, day |-> 0]
        ELSE [n |-> 3, year |-> y.val, month |-> m.val, day |-> d.val]

RECURSIVE DecimalBytes(_)
DecimalBytes(n) ==
    IF n < 10 THEN <<DigitSeq[n + 1]>>
    ELSE Append(DecimalBytes(n \div 10), DigitSeq[(n % 10) + 1])

\* printf's %2d and %04d: the sign and the digits, filled on the left to width.
format_int(n, width, zero_fill) ==
    LET digits == DecimalBytes(IF n < 0 THEN 0 - n ELSE n)
        sign == IF n < 0 THEN <<"-">> ELSE <<>>
        fill == IF Len(sign) + Len(digits) < width
                THEN width - Len(sign) - Len(digits) ELSE 0
    IN  IF zero_fill THEN sign \o Rep("0", fill) \o digits
        ELSE Rep(" ", fill) \o sign \o digits

\* snprintf(out, 32, "%s %2d, %04d", dict[month - 1], day, year)
date_text(dict, year, month, day) ==
    LET full == dict[month] \o <<" ">> \o format_int(day, 2, FALSE)
                \o <<",", " ">> \o format_int(year, 4, TRUE)
    IN  SubSeq(full, 1, Min(Len(full), 32 - 1))

\* Whether format_date goes on to format a date whose month is this one.
month_accepted(month) == month >= 1 /\ month <= 12

\* What a call of format_date can do: return false, return true with the text
\* put in out, or end the process.  With a month outside 1..12 the assert ends
\* the process; a build with NDEBUG reads dict[month - 1] outside the array,
\* which is undefined: it gets some bytes and returns true, or ends the process.
format_date(iso_date, dict) ==
    LET r == sscanf_date(iso_date) IN
    IF r.n # 3 THEN { [status |-> "false", out |-> <<>>] }
    ELSE IF ~month_accepted(r.month)
         THEN { [status |-> "abort", out |-> <<>>],
                [status |-> "true", out |-> <<"?">>] }
    ELSE { [status |-> "true", out |-> date_text(dict, r.year, r.month, r.day)] }

format_date_full(iso_date) == format_date(iso_date, MONTHS_FULL)
format_date_abbr(iso_date) == format_date(iso_date, MONTHS_ABBR)

(***************************************************************************)
(* The closers (main.c 722-746): what each writes and the state it leaves. *)
(***************************************************************************)
close_paragraph(st) ==
    IF st.in_paragraph
    THEN [out |-> <<"</p>\n">>, state |-> [st EXCEPT !.in_paragraph = FALSE]]
    ELSE [out |-> <<>>, state |-> st]

\* A faulty close_list, which writes the closing tag and leaves the list open.
close_list_kept(st) ==
    IF st.block = "UNORDERED_LIST" THEN [out |-> <<"</ul>\n">>, state |-> st]
    ELSE IF st.block = "ORDERED_LIST" THEN [out |-> <<"</ol>\n">>, state |-> st]
    ELSE [out |-> <<>>, state |-> st]

close_list(st) ==
    IF st.block = "UNORDERED_LIST"
    THEN [out |-> <<"</ul>\n">>, state |-> [st EXCEPT !.block = "NONE"]]
    ELSE IF st.block = "ORDERED_LIST"
    THEN [out |-> <<"</ol>\n">>, state |-> [st EXCEPT !.block = "NONE"]]
    ELSE [out |-> <<>>, state |-> st]

close_section(st) ==
    LET a == close_paragraph(st)
        b == close_list(a.state)
    IN  IF b.state.in_section
        THEN [out |-> a.out \o b.out \o <<"</section>\n">>,
              state |-> [b.state EXCEPT !.in_section = FALSE]]
        ELSE [out |-> a.out \o b.out, state |-> b.state]

\* close_paragraph and then close_list, as every branch but the last begins.
close_blocks(st) ==
    LET a == close_paragraph(st)
        b == close_list(a.state)
    IN  [out |-> a.out \o b.out, state |-> b.state]

(***************************************************************************)
(* The document shell (main.c 675-685, 757-763, 875-877).                  *)
(***************************************************************************)
html_write_head(title) ==
    << "<!DOCTYPE html>\n", "<html lang=\"en\">\n", "<head>\n",
       "  <meta charset=\"utf-8\">\n",
       "  <meta name=\"viewport\" content=\"width=device-width, initial-scale=1\">\n",
       "  <link rel=\"icon\" type=\"image/svg+xml\" href=\"/favicon.svg\" />\n",
       "  <title>" >> \o title \o << "</title>\n",
       "  <style>\n", "styles_css", "\n</style>\n", "</head>\n" >>

\* A faulty opening, whose subtitle is written empty.
page_opening_undated(title, has_date, formatted_date) ==
    html_write_head(title)
    \o << "<body>\n", "<article>\n", "<h1>" >> \o title \o << "</h1>\n" >>
    \o (IF has_date THEN << "<p class=\"subtitle\">", "</p>\n" >> ELSE << >>)

page_opening(title, has_date, formatted_date) ==
    html_write_head(title)
    \o << "<body>\n", "<article>\n", "<h1>" >> \o title \o << "</h1>\n" >>
    \o (IF has_date
        THEN << "<p class=\"subtitle\">" >> \o formatted_date \o << "</p>\n" >>
        ELSE << >>)

page_closing == << "</article>\n", "</body>\n", "</html>\n" >>

ParseState0 ==
    [in_section |-> FALSE, in_paragraph |-> FALSE, block |-> "NONE", sidenote_id |-> 0]

\* A faulty start of a page, which goes on from the state of the page before.
fresh_state_kept(previous) == previous

\* ParseState state = {0}: the state build_page starts from, whatever state
\* the call before it ended in.
fresh_state(previous) == ParseState0

(***************************************************************************)
(* One iteration of build_page's main loop (main.c 770-870), by the branch *)
(* taken: what is written, the state and the cursor afterwards, and the    *)
(* text handed to write_formatted_content (none: the empty text).          *)
(***************************************************************************)
blank_step(content, cur, st) ==
    LET line_len == get_line_len(content, cur)
        c == close_blocks(st)
    IN  [out |-> c.out, state |-> c.state,
         cursor |-> SkipLine(content, cur, line_len), text |-> <<>>]

\* A faulty fence branch, which leaves the cursor at the first line of the block.
fence_step_shallow(content, cur, st) ==
    LET line_len == get_line_len(content, cur)
        c == close_blocks(st)
        code == collect_code_block(content, SkipLine(content, cur, line_len), BUFFER_SIZE)
    IN  [out |-> c.out \o <<"<pre><code>">>
                 \o write_html_escaped(code.text, Len(code.text))
                 \o <<"</code></pre>\n">>,
         state |-> c.state, cursor |-> SkipLine(content, cur, line_len), text |-> <<>>]

fence_step(content, cur, st) ==
    LET line_len == get_line_len(content, cur)
        c == close_blocks(st)
        code == collect_code_block(content, SkipLine(content, cur, line_len), BUFFER_SIZE)
    IN  [out |-> c.out \o <<"<pre><code>">>
                 \o write_html_escaped(code.text, Len(code.text))
                 \o <<"</code></pre>\n">>,
         state |-> c.state, cursor |-> code.cursor, text |-> <<>>]

\* A faulty h2 part, which opens a section without closing the open one.
heading_section_unclosed(heading_level, st) ==
    IF heading_level = 2
    THEN [out |-> <<"<section>\n">>, state |-> [st EXCEPT !.in_section = TRUE]]
    ELSE [out |-> <<>>, state |-> st]

\* The h2 part of the heading branch: close the section and open a new one.
heading_section(heading_level, st) ==
    IF heading_level = 2
    THEN LET s == close_section(st)
         IN  [out |-> s.out \o <<"<section>\n">>,
              state |-> [s.state EXCEPT !.in_section = TRUE]]
    ELSE [out |-> <<>>, state |-> st]

heading_step(content, cur, st) ==
    LET line_len == get_line_len(content, cur)
        line == LineAt(content, cur)
        heading_level == get_heading_level(line, line_len)
        c == close_blocks(st)
        h == heading_section(heading_level, c.state)
        text_offset == heading_level + 1
        text_len == line_len - text_offset
        text == SubSeq(line, text_offset + 1, line_len)
        w == write_formatted_content(text, text_len, h.state.sidenote_id)
    IN  [out |-> c.out \o h.out \o << "<h" \o Decimal(heading_level) \o ">" >>
                 \o w.out \o << "</h" \o Decimal(heading_level) \o ">\n" >>,
         state |-> [h.state EXCEPT !.sidenote_id = w.sidenote_id],
         cursor |-> SkipLine(content, cur, line_len),
         text |-> text]

\* A faulty start of a list branch, which marks a paragraph open as well.
list_open_in_paragraph(block, open_tag, st) ==
    IF st.block # block
    THEN LET l == close_list(st)
         IN  [out |-> l.out \o <<open_tag>>,
              state |-> [l.state EXCEPT !.block = block, !.in_paragraph = TRUE]]
    ELSE [out |-> <<>>, state |-> st]

\* A faulty start of a list branch, which leaves a list of the other kind open.
list_open_over(block, open_tag, st) ==
    IF st.block # block
    THEN [out |-> <<open_tag>>, state |-> [st EXCEPT !.block = block]]
    ELSE [out |-> <<>>, state |-> st]

\* The start of a list branch: the list of this kind is opened unless it is
\* the open block.
list_open(block, open_tag, st) ==
    IF st.block # block
    THEN LET l == close_list(st)
         IN  [out |-> l.out \o <<open_tag>>, state |-> [l.state EXCEPT !.block = block]]
    ELSE [out |-> <<>>, state |-> st]

item_step(content, cur, st, block, open_tag) ==
    LET line_len == get_line_len(content, cur)
        line == LineAt(content, cur)
        p == close_paragraph(st)
        l == list_open(block, open_tag, p.state)
        item_offset == get_list_item_offset(line, line_len)
        text == SubSeq(line, item_offset + 1, line_len)
        w == write_formatted_content(text, line_len - item_offset, l.state.sidenote_id)
    IN  [out |-> p.out \o l.out \o <<"<li>">> \o w.out \o <<"</li>\n">>,
         state |-> [l.state EXCEPT !.sidenote_id = w.sidenote_id],
         cursor |-> SkipLine(content, cur, line_len),
         text |-> text]

unordered_step(content, cur, st) ==
    item_step(content, cur, st, "UNORDERED_LIST", "<ul>\n")

ordered_step(content, cur, st) ==
    item_step(content, cur, st, "ORDERED_LIST", "<ol>\n")

paragraph_step(content, cur, st) ==
    LET l == close_list(st)
        para == collect_paragraph(content, cur, BUFFER_SIZE)
        para_len == Len(para.text)
        w == write_formatted_content(para.text, para_len, l.state.sidenote_id)
    IN  IF para.hang
        THEN [out |-> l.out, state |-> l.state, cursor |-> para.cursor,
              text |-> <<>>, hang |-> TRUE]
        ELSE IF para_len > 0
        THEN [out |-> l.out \o <<"<p>">> \o w.out \o <<"</p>\n">>,
              state |-> [l.state EXCEPT !.sidenote_id = w.sidenote_id],
              cursor |-> para.cursor,
              text |-> para.text, hang |-> FALSE]
        ELSE [out |-> l.out, state |-> l.state, cursor |-> para.cursor,
              text |-> <<>>, hang |-> FALSE]

(***************************************************************************)
(* The inputs: page bodies of at most MaxLines lines, each line one of a   *)
(* pool that holds every kind of line and every inline construct.          *)
(***************************************************************************)
HashLine == Rep("#", U8Mod)

LinePool == {
    <<>>,
    <<Backtick,Backtick,Backtick>>,
    <<"#","#"," ","*","*","b">>,
    <<"#","#","#"," ","^","[","&","]">>,
    <<"-"," ","_","_","b","_","_","^","-","[","m","]">>,
    <<"1","."," ","&">>,
    <<"a">>,
    <<"x","^","[","n","^","-","[","m","]","]",Backtick,"&",Backtick>>,
    <<"<","&",">">>,
    HashLine }

NotePool == {
    <<>>,
    <<Backtick,Backtick,Backtick>>,
    <<"#","#"," ","^","[","a","]">>,
    <<"-"," ","^","-","[","b","]">>,
    <<"1","."," ","^","[","c","^","[","d","]","]">>,
    <<"x","^","[","n","^","-","[","m","]","]","y","^","[","u">>,
    HashLine }

RECURSIVE JoinLines(_)
JoinLines(ls) ==
    IF ls = <<>> THEN <<>>
    ELSE IF Len(ls) = 1 THEN Head(ls)
    ELSE Head(ls) \o <<"\n">> \o JoinLines(Tail(ls))

LineSeqs(pool, n) == UNION { [1..k -> pool] : k \in 0..n }

Bodies(pool, n) == { JoinLines(ls) : ls \in LineSeqs(pool, n) }

TitleHello == <<"H","e","l","l","o">>
DateValid == <<"2","0","2","4","-","0","1","-","0","3">>
DateBadMonth == <<"2","0","2","4","-","1","3","-","0","1">>
DateBadShape == <<"J","a","n"," ","3">>

TITLE_MAX == 256

MkPage(title, date, content) ==
    [title |-> title, slug |-> slugify(title, TITLE_MAX), date |-> date, content |-> content]

\* Every body without a date, and the short bodies with each date.
PageInputs(pool, lines) ==
    { MkPage(TitleHello, <<>>, b) : b \in Bodies(pool, lines) }
    \cup { MkPage(TitleHello, d, b) :
             d \in {DateValid, DateBadMonth, DateBadShape}, b \in Bodies(pool, 1) }

\* The pages build_pages can be handed, for each pool of lines.
LinePages == PageInputs(LinePool, MaxLines)
NotePages == PageInputs(NotePool, MaxNoteLines)

NoPage == [title |-> <<>>, slug |-> <<>>, date |-> <<>>, content |-> <<>>]
NoCall == [fn |-> "none"]
NoRet == [done |-> FALSE]

\* The arena before main has used it: mmap hands out zeroed memory, so every
\* Page that can lie in it is all empty strings.
Arena0 == [k \in 1..MaxFiles |-> NoPage]

\* main has not started.
NoSite ==
    [dname |-> <<>>, posts_seen |-> FALSE, idx |-> 0, files |-> <<>>, imported |-> <<>>,
     index |-> <<>>, formatted_date |-> <<>>, failed |-> FALSE, sink_failed |-> FALSE,
     exit_code |-> 0]

(***************************************************************************)
(* build_pages (main.c 880-900) and build_page (main.c 748-878).           *)
(***************************************************************************)
InitPages(counts) ==
    /\ pc = "next"
    /\ i = 0
    /\ page_count \in counts
    /\ page = NoPage
    /\ cursor = 0
    /\ state = ParseState0
    /\ out = <<>>
    /\ dispatched = <<>>
    /\ call = NoCall
    /\ ret = NoRet
    /\ arena = Arena0
    /\ site = NoSite

\* fopen succeeds: build_page is entered with the page pages[i].
OpenPage(inputs) ==
    /\ pc = "next" /\ i < page_count
    /\ \E p \in inputs : page' = p
    /\ pc' = "head"
    /\ cursor' = 0
    /\ state' = fresh_state(state)
    /\ out' = <<>>
    /\ dispatched' = <<>>
    /\ UNCHANGED <<i, page_count, call, ret, arena, site>>

\* fopen fails: build_pages returns false.
OpenFails ==
    /\ pc = "next" /\ i < page_count
    /\ pc' = "failed"
    /\ UNCHANGED <<i, page_count, page, cursor, state, out, dispatched, call, ret, arena, site>>

\* The loop of build_pages is over: it returns true.
ReturnTrue ==
    /\ pc = "next" /\ i = page_count
    /\ pc' = "done"
    /\ UNCHANGED <<i, page_count, page, cursor, state, out, dispatched, call, ret, arena, site>>

\* build_page up to its main loop: the date is formatted and the shell opened.
WriteOpening ==
    /\ pc = "head"
    /\ \E o \in (IF page.date # <<>> THEN format_date_full(page.date)
                 ELSE { [status |-> "true", out |-> <<>>] }) :
          IF o.status = "abort"
          THEN pc' = "abort" /\ out' = out
          ELSE /\ pc' = "loop"
               /\ out' = out \o page_opening(page.title, page.date # <<>>,
                                             IF o.status = "true" THEN o.out ELSE <<>>)
    /\ UNCHANGED <<i, page_count, page, cursor, state, dispatched, call, ret, arena, site>>

AtLine == pc = "loop" /\ cursor < Len(page.content)
CurKind == line_kind(LineAt(page.content, cursor), get_line_len(page.content, cursor))

\* An iteration that takes the branch for kind: its effect, and its entry in
\* the record of iterations (where the line was, the state before and after,
\* what was written and what text was rendered).
Take(kind, step) ==
    /\ out' = out \o step.out
    /\ state' = step.state
    /\ cursor' = step.cursor
    /\ dispatched' = Append(dispatched,
           [kind |-> kind, at |-> cursor, next |-> step.cursor, text |-> step.text,
            before |-> state, after |-> step.state, wrote |-> step.out])
    /\ UNCHANGED <<pc, i, page_count, page, call, ret, arena, site>>

BlankLine == AtLine /\ CurKind = "blank" /\ Take("blank", blank_step(page.content, cursor, state))

CodeFence == AtLine /\ CurKind = "fence" /\ Take("fence", fence_step(page.content, cursor, state))

Heading == AtLine /\ CurKind = "heading" /\ Take("heading", heading_step(page.content, cursor, state))

UnorderedItem == AtLine /\ CurKind = "ul" /\ Take("ul", unordered_step(page.content, cursor, state))

OrderedItem == AtLine /\ CurKind = "ol" /\ Take("ol", ordered_step(page.content, cursor, state))

Paragraph ==
    /\ AtLine /\ CurKind = "paragraph"
    /\ ~paragraph_step(page.content, cursor, state).hang
    /\ Take("paragraph", paragraph_step(page.content, cursor, state))

\* get_heading_level never returns, in the main loop or in collect_paragraph
\* (after the list was closed): build_page stays where it is.
Hang ==
    /\ AtLine
    /\ \/ /\ CurKind = "hang"
          /\ UNCHANGED <<out, state>>
       \/ /\ CurKind = "paragraph"
          /\ paragraph_step(page.content, cursor, state).hang
          /\ out' = out \o paragraph_step(page.content, cursor, state).out
          /\ state' = paragraph_step(page.content, cursor, state).state
    /\ pc' = "hang"
    /\ UNCHANGED <<i, page_count, page, cursor, dispatched, call, ret, arena, site>>

\* The end of the body: the open elements and the shell are closed.
Finish ==
    /\ pc = "loop" /\ cursor >= Len(page.content)
    /\ out' = out \o close_section(state).out \o page_closing
    /\ state' = close_section(state).state
    /\ pc' = "built"
    /\ UNCHANGED <<i, page_count, page, cursor, dispatched, call, ret, arena, site>>

\* build_page has returned: fclose(fout); ++i.  The file and the page are
\* out of reach from here on.
ClosePage ==
    /\ pc = "built"
    /\ i' = i + 1
    /\ pc' = "next"
    /\ page' = NoPage
    /\ cursor' = 0
    /\ out' = <<>>
    /\ dispatched' = <<>>
    /\ UNCHANGED <<page_count, state, call, ret, arena, site>>

BuildStep ==
    \/ OpenFails \/ ReturnTrue \/ WriteOpening
    \/ BlankLine \/ CodeFence \/ Heading \/ UnorderedItem \/ OrderedItem
    \/ Paragraph \/ Hang \/ Finish \/ ClosePage

\* build_pages on one page with any body of the pool.
Init == InitPages({1})
Next == OpenPage(LinePages) \/ BuildStep
Spec == Init /\ [][Next]_vars

\* build_pages on up to MaxPages pages whose bodies hold notes.
InitNotes == InitPages(1..MaxPages)
NextNotes == OpenPage(NotePages) \/ BuildStep
SpecPages == InitNotes /\ [][NextNotes]_vars

(***************************************************************************)
(* Calls of single functions: the arguments are in call, and ret holds     *)
(* what the call returned once it has.                                     *)
(***************************************************************************)
Strings(alphabet, n) == UNION { [1..k -> alphabet] : k \in 0..n }

HelperInit(calls) ==
    /\ pc = "helper"
    /\ i = 0
    /\ page_count = 0
    /\ page = NoPage
    /\ cursor = 0
    /\ state = ParseState0
    /\ out = <<>>
    /\ dispatched = <<>>
    /\ call \in calls
    /\ ret = NoRet
    /\ arena = Arena0
    /\ site = NoSite

HelperFrame == UNCHANGED <<i, page_count, page, cursor, state, out, dispatched, call, arena, site>>

\* A byte above 0x7F: no letter and no digit in the C locale.
HighByte == "0xC3"

\* slugify(input, output, output_size), and slugify again on its output.
SlugBytes == { "a", "B", "1", "-", HighByte }
SlugCalls ==
    { [fn |-> "slugify", input |-> t, output_size |-> n] :
        t \in Strings(SlugBytes, MaxTitleLen), n \in 2..MaxOutSize }

Slugify ==
    /\ pc = "helper" /\ call.fn = "slugify"
    /\ ret' = [done |-> TRUE, again |-> FALSE, first |-> <<>>,
               value |-> slugify(call.input, call.output_size)]
    /\ pc' = "returned"
    /\ HelperFrame

SlugifyAgain ==
    /\ pc = "returned" /\ call.fn = "slugify" /\ ~ret.again
    /\ ret' = [done |-> TRUE, again |-> TRUE, first |-> ret.value,
               value |-> slugify(ret.value, call.output_size)]
    /\ pc' = "returned"
    /\ HelperFrame

InitSlug == HelperInit(SlugCalls)
NextSlug == Slugify \/ SlugifyAgain
SpecSlug == InitSlug /\ [][NextSlug]_vars

\* format_date(iso_date, dict, out): texts put together from these parts.
DateLeads == { <<>>, <<" ">> }
DateYears == { <<"2","0","2","4">>, <<"2","4">>, <<"x">> }
DateSeps == { <<"-">>, <<"/">> }
DateMonths == { <<"0","1">>, <<"1">>, <<"1","2">>, <<"1","3">>, <<"0","0">>, <<"-","1">> }
DateDays == { <<"0","3">>, <<"3">>, <<>> }
DateTails == { <<>>, <<"x">> }
DateTexts ==
    { l \o y \o s1 \o m \o s2 \o d \o t :
        l \in DateLeads, y \in DateYears, s1 \in DateSeps, m \in DateMonths,
        s2 \in DateSeps, d \in DateDays, t \in DateTails }
DateCalls ==
    { [fn |-> "format_date", iso_date |-> t, dict |-> d] :
        t \in DateTexts, d \in { MONTHS_FULL, MONTHS_ABBR } }

FormatDate ==
    /\ pc = "helper" /\ call.fn = "format_date"
    /\ \E o \in format_date(call.iso_date, call.dict) :
          /\ ret' = [done |-> o.status # "abort", status |-> o.status, out |-> o.out]
          /\ pc' = IF o.status = "abort" THEN "abort" ELSE "returned"
    /\ HelperFrame

InitDate == HelperInit(DateCalls)
NextDate == FormatDate
SpecDate == InitDate /\ [][NextDate]_vars

\* The dispatch of build_page's main loop on one line: every line of at most
\* MaxLineLen bytes that matter to a rule, and lines of many '#'.
ClassifyBytes == { "#", " ", "\t", "-", "1", ".", Backtick, "a" }
ClassifyLines ==
    Strings(ClassifyBytes, MaxLineLen)
    \cup { Rep("#", n) \o tail :
             n \in { 6, 7, U8Mod - 1, U8Mod, U8Mod + 1 }, tail \in { <<>>, <<" ", "a">> } }
ClassifyCalls == { [fn |-> "dispatch", line |-> l] : l \in ClassifyLines }

\* Where the text of a heading or of a list item begins in its line, as the
\* branch computes it: text_offset = heading_level + 1, or item_offset.
marker_offset(kind, line, line_len) ==
    IF kind = "heading" THEN get_heading_level(line, line_len) + 1
    ELSE IF kind \in { "ul", "ol" } THEN get_list_item_offset(line, line_len)
    ELSE 0

\* The tests of the main loop return a kind, and with it the offset of the
\* text; or get_heading_level never returns.
Classify ==
    /\ pc = "helper" /\ call.fn = "dispatch"
    /\ LET kind == line_kind(call.line, Len(call.line))
       IN  IF kind = "hang"
           THEN pc' = "hang" /\ ret' = ret
           ELSE pc' = "returned"
                /\ ret' = [done |-> TRUE, value |-> kind,
                           offset |-> marker_offset(kind, call.line, Len(call.line))]
    /\ HelperFrame

InitClassify == HelperInit(ClassifyCalls)
NextClassify == Classify
SpecClassify == InitClassify /\ [][NextClassify]_vars

(***************************************************************************)
(* The collectors on their own: collect_paragraph and collect_code_block   *)
(* are called at the start of a body with a buffer of out_size bytes, for  *)
(* out_size from 1 to MaxBufSize, so that the block is longer than the     *)
(* buffer in most calls.                                                   *)
(***************************************************************************)
CollectPool == {
    <<>>,
    <<"a">>,
    <<"b","c">>,
    <<Backtick,Backtick,Backtick>>,
    <<"-"," ","d">> }

CollectCalls ==
    { [fn |-> f, content |-> b, out_size |-> n] :
        f \in { "collect_paragraph", "collect_code_block" },
        b \in Bodies(CollectPool, MaxLines),
        n \in 1..MaxBufSize }

CollectParagraph ==
    /\ pc = "helper" /\ call.fn = "collect_paragraph"
    /\ LET r == collect_paragraph(call.content, 0, call.out_size)
       IN  IF r.hang
           THEN pc' = "hang" /\ ret' = ret
           ELSE pc' = "returned"
                /\ ret' = [done |-> TRUE, text |-> r.text, cursor |-> r.cursor]
    /\ HelperFrame

CollectCodeBlock ==
    /\ pc = "helper" /\ call.fn = "collect_code_block"
    /\ LET r == collect_code_block(call.content, 0, call.out_size)
       IN  ret' = [done |-> TRUE, text |-> r.text, cursor |-> r.cursor]
    /\ pc' = "returned"
    /\ HelperFrame

InitCollect == HelperInit(CollectCalls)
NextCollect == CollectParagraph \/ CollectCodeBlock
SpecCollect == InitCollect /\ [][NextCollect]_vars

(***************************************************************************)
(* The closers on their own: one of close_paragraph, close_list and        *)
(* close_section is called on a parse state, any value of ParseState, and  *)
(* called again on the state it left.                                      *)
(***************************************************************************)
BlockType == { "NONE", "CODE", "UNORDERED_LIST", "ORDERED_LIST" }

ParseStates ==
    [in_section : BOOLEAN, in_paragraph : BOOLEAN, block : BlockType, sidenote_id : 0..1]

CloseCalls ==
    { [fn |-> "close", closer |-> c, state |-> st] :
        c \in { "close_paragraph", "close_list", "close_section" }, st \in ParseStates }

apply_closer(closer, st) ==
    CASE closer = "close_paragraph" -> close_paragraph(st)
      [] closer = "close_list" -> close_list(st)
      [] closer = "close_section" -> close_section(st)

InitClose ==
    /\ pc = "helper"
    /\ i = 0
    /\ page_count = 0
    /\ page = NoPage
    /\ cursor = 0
    /\ call \in CloseCalls
    /\ state = call.state
    /\ out = <<>>
    /\ dispatched = <<>>
    /\ ret = NoRet
    /\ arena = Arena0
    /\ site = NoSite

\* The call: what it writes goes to the output, the state is left as the
\* closer leaves it; ret keeps both as they are after the first call.
CloseOnce ==
    /\ pc = "helper" /\ call.fn = "close"
    /\ LET r == apply_closer(call.closer, state)
       IN  /\ out' = out \o r.out
           /\ state' = r.state
           /\ ret' = [done |-> TRUE, times |-> 1, out |-> out \o r.out, state |-> r.state]
    /\ pc' = "returned"
    /\ UNCHANGED <<i, page_count, page, cursor, dispatched, call, arena, site>>

CloseAgain ==
    /\ pc = "returned" /\ call.fn = "close" /\ ret.times = 1
    /\ LET r == apply_closer(call.closer, state)
       IN  /\ out' = out \o r.out
           /\ state' = r.state
    /\ ret' = [ret EXCEPT !.times = 2]
    /\ pc' = "returned"
    /\ UNCHANGED <<i, page_count, page, cursor, dispatched, call, arena, site>>

NextClose == CloseOnce \/ CloseAgain
SpecClose == InitClose /\ [][NextClose]_vars

(***************************************************************************)
(* write_formatted_content, one iteration of its loop at a time.  The      *)
(* slice is call.text; ret holds the locals of the call (i and the three   *)
(* toggles) and a log of the iterations done; the bytes go to out and the  *)
(* note counter is state.sidenote_id.  A note is written by write_note     *)
(* within the iteration that meets it.                                     *)
(***************************************************************************)
MaxTokens == 4

InlineTokens ==
    { <<"*", "*">>, <<"_", "_">>, <<"=", "=">>, <<Backtick>>,
      <<"^", "[">>, <<"^", "-", "[">>, <<"]">>, <<"[">>, <<"a">> }

RECURSIVE TokenTexts(_)
TokenTexts(n) ==
    IF n = 0 THEN { <<>> }
    ELSE LET shorter == TokenTexts(n - 1)
         IN  shorter \cup { t \o tok : t \in shorter, tok \in InlineTokens }

InlineCalls == { [fn |-> "write_formatted_content", text |-> t] : t \in TokenTexts(MaxTokens) }

\* bool in_bold = false; bool in_italic = false; bool in_highlight = false; i = 0
InlineLocals0 ==
    [done |-> FALSE, i |-> 0, in_bold |-> FALSE, in_italic |-> FALSE,
     in_highlight |-> FALSE, steps |-> <<>>]

InitInline ==
    /\ pc = "inline"
    /\ i = 0
    /\ page_count = 0
    /\ page = NoPage
    /\ cursor = 0
    /\ state = ParseState0
    /\ out = <<>>
    /\ dispatched = <<>>
    /\ call \in InlineCalls
    /\ ret = InlineLocals0
    /\ arena = Arena0
    /\ site = NoSite

Toggles(r) == <<r.in_bold, r.in_italic, r.in_highlight>>

\* The loop is at a byte of the slice whose format type is one of fmts.
AtSlice(fmts) ==
    /\ pc = "inline"
    /\ ret.i < Len(call.text)
    /\ get_format_type(call.text, ret.i, Len(call.text)) \in fmts

\* One iteration: what it wrote, where the loop goes on, and what it left in
\* the toggles and in the note counter.
InlineStep(fmt, next, in_bold, in_italic, in_highlight, sidenote_id, wrote) ==
    /\ out' = out \o wrote
    /\ state' = [state EXCEPT !.sidenote_id = sidenote_id]
    /\ ret' = [ret EXCEPT !.i = next, !.in_bold = in_bold, !.in_italic = in_italic,
                          !.in_highlight = in_highlight,
                          !.steps = Append(@,
                              [fmt |-> fmt, at |-> ret.i, next |-> next,
                               before |-> Toggles(ret),
                               after |-> <<in_bold, in_italic, in_highlight>>,
                               id_before |-> state.sidenote_id,
                               id_after |-> sidenote_id,
                               wrote |-> wrote])]
    /\ pc' = pc
    /\ UNCHANGED <<i, page_count, page, cursor, dispatched, call, arena, site>>

ToggleBold ==
    /\ AtSlice({ "BOLD" })
    /\ InlineStep("BOLD", ret.i + 2, ~ret.in_bold, ret.in_italic, ret.in_highlight,
                  state.sidenote_id, <<toggle_tag(ret.in_bold, "<strong>", "</strong>")>>)

ToggleItalic ==
    /\ AtSlice({ "ITALIC" })
    /\ InlineStep("ITALIC", ret.i + 2, ret.in_bold, ~ret.in_italic, ret.in_highlight,
                  state.sidenote_id, <<toggle_tag(ret.in_italic, "<em>", "</em>")>>)

ToggleHighlight ==
    /\ AtSlice({ "HIGHLIGHT" })
    /\ InlineStep("HIGHLIGHT", ret.i + 2, ret.in_bold, ret.in_italic, ~ret.in_highlight,
                  state.sidenote_id, <<toggle_tag(ret.in_highlight, "<mark>", "</mark>")>>)

InlineCode ==
    /\ AtSlice({ "INLINE_CODE" })
    /\ LET len == Len(call.text)
           j == find_backtick(call.text, ret.i + 1, len)
       IN  IF j < len
           THEN InlineStep("INLINE_CODE", j + 1, ret.in_bold, ret.in_italic, ret.in_highlight,
                           state.sidenote_id,
                           <<"<code>">> \o SubSeq(call.text, ret.i + 2, j) \o <<"</code>">>)
           ELSE InlineStep("INLINE_CODE", ret.i + 1, ret.in_bold, ret.in_italic,
                           ret.in_highlight, state.sidenote_id, <<At(call.text, ret.i)>>)

\* case FORMAT_SIDENOTE (skip 2 bytes) and case FORMAT_MARGIN_NOTE (skip 3).
NoteCase(fmt, skip) ==
    /\ AtSlice({ fmt })
    /\ LET len == Len(call.text)
           content_start == ret.i + skip
           close == find_closing_bracket(call.text, content_start, len)
           note == write_note(fmt, SubSeq(call.text, content_start + 1, close),
                              close - content_start, state.sidenote_id)
       IN  IF close < len
           THEN InlineStep(fmt, close + 1, ret.in_bold, ret.in_italic, ret.in_highlight,
                           note.sidenote_id, note.out)
           ELSE InlineStep(fmt, ret.i + 1, ret.in_bold, ret.in_italic, ret.in_highlight,
                           state.sidenote_id, <<At(call.text, ret.i)>>)

Sidenote == NoteCase("SIDENOTE", 2)
MarginNote == NoteCase("MARGIN_NOTE", 3)

Literal ==
    /\ AtSlice({ "NONE" })
    /\ InlineStep("NONE", ret.i + 1, ret.in_bold, ret.in_italic, ret.in_highlight,
                  state.sidenote_id, <<At(call.text, ret.i)>>)

\* The loop is over: the toggles still open are closed and the call returns.
EndOfSlice ==
    /\ pc = "inline"
    /\ ret.i >= Len(call.text)
    /\ out' = out \o close_toggles(ret.in_bold, ret.in_italic, ret.in_highlight)
    /\ ret' = [ret EXCEPT !.done = TRUE]
    /\ pc' = "returned"
    /\ UNCHANGED <<i, page_count, page, cursor, state, dispatched, call, arena, site>>

NextInline ==
    \/ ToggleBold \/ ToggleItalic \/ ToggleHighlight
    \/ InlineCode \/ Sidenote \/ MarginNote \/ Literal
    \/ EndOfSlice

SpecInline == InitInline /\ [][NextInline]_vars

(***************************************************************************)
(* main (main.c 982-1061) with import_pages (406-489), build_pages,        *)
(* qsort with compare_pages_desc (207-211) and build_index (913-952).      *)
(* Every .txt file has an empty body: build_page writes the shell only.    *)
(* arena[k] is the memory in which the k-th Page of a directory lies; it   *)
(* keeps what was written to it when arena_clear takes the arena back.     *)
(* site.failed tells whether some I/O step has failed so far, site.files   *)
(* and site.imported what import_pages read and returned for the directory *)
(* at hand, and site.index the rows build_index has written.               *)
(***************************************************************************)
TitleA == <<"A">>
TitleB == <<"B">>
DateOlder == <<"2","0","2","3","-","1","2","-","3","1">>

\* Bytes that are not the program's to read as a string: file bytes where a
\* Page now lies, or a buffer on the stack that was never written.
Junk == <<"j">>
JunkPage == [title |-> Junk, slug |-> Junk, date |-> Junk, content |-> <<>>]

\* The front matter of a .txt file: its title: line and its date: line, if any.
MkFile(has_title, title, has_date, date) ==
    [has_title |-> has_title, title |-> title, has_date |-> has_date, date |-> date]

SiteFiles ==
    { MkFile(FALSE, <<>>, FALSE, <<>>),
      MkFile(TRUE, TitleA, TRUE, DateValid),
      MkFile(TRUE, TitleB, TRUE, DateOlder),
      MkFile(TRUE, TitleA, FALSE, <<>>) }

DirNames == { <<"p","o","s","t","s">>, <<"n","o","t","e","s">> }
Posts == <<"p","o","s","t","s">>

\* import_pages' loop over the lines of the front matter, on the Page that
\* lies at pages[idx]: the title and the slug are written for a title: line,
\* the date for a date: line, and the content always.
import_file(slot, file) ==
    [title |-> IF file.has_title THEN file.title ELSE slot.title,
     slug |-> IF file.has_title THEN slugify(file.title, TITLE_MAX) ELSE slot.slug,
     date |-> IF file.has_date THEN file.date ELSE slot.date,
     content |-> <<>>]

\* The bytes in the order of their codes, and strcmp (its sign).
ByteOrder == <<"-">> \o DigitSeq \o UpperSeq \o LowerSeq
ByteCode(c) == CHOOSE k \in DOMAIN ByteOrder : ByteOrder[k] = c

strcmp(a, b) ==
    LET differ == { k \in 1..Min(Len(a), Len(b)) : a[k] # b[k] }
    IN  IF differ = {}
        THEN Len(a) - Len(b)
        ELSE LET k == CHOOSE n \in differ : \A m \in differ : n <= m
             IN  ByteCode(a[k]) - ByteCode(b[k])

\* A faulty comparison, which sorts the oldest page first.
compare_pages_asc(page_a, page_b) == strcmp(page_a.date, page_b.date)

compare_pages_desc(page_a, page_b) == strcmp(page_b.date, page_a.date)

\* qsort(pages, page_count, sizeof(Page), compare_pages_desc): every order of
\* the pages that the comparison allows (qsort is not stable).
qsort(base, nmemb) ==
    LET orders == { p \in [1..nmemb -> 1..nmemb] :
                      /\ \A a, b \in 1..nmemb : a # b => p[a] # p[b]
                      /\ \A a, b \in 1..nmemb :
                            a < b => compare_pages_desc(base[p[a]], base[p[b]]) <= 0 }
    IN  { [k \in 1..nmemb |-> base[p[k]]] : p \in orders }

\* char formatted_date[32] of build_index, read before it is written: no
\* bytes, bytes left on the stack, or what the iteration before left in it.
Uninitialised(before) == { <<>>, Junk, before }

InitSite ==
    /\ pc = "main"
    /\ i = 0
    /\ page_count = 0
    /\ page = NoPage
    /\ cursor = 0
    /\ state = ParseState0
    /\ out = <<>>
    /\ dispatched = <<>>
    /\ call = NoCall
    /\ ret = NoRet
    /\ arena = Arena0
    /\ site = NoSite

SiteFrame == UNCHANGED <<i, page, cursor, state, out, dispatched, call, ret>>

\* The locals of the loop body of main, before a directory is at hand.
NoDirectory(s) ==
    [s EXCEPT !.dname = <<>>, !.idx = 0, !.files = <<>>, !.imported = <<>>,
              !.index = <<>>, !.formatted_date = <<>>]

\* An I/O step has failed and main returns 1 (after arena_release, where
\* there is an arena).
Return1 ==
    /\ site' = [NoDirectory(site) EXCEPT !.failed = TRUE, !.exit_code = 1]
    /\ arena' = Arena0
    /\ page_count' = 0
    /\ pc' = "exit"

PreparePublicDir ==
    /\ pc = "main"
    /\ \/ pc' = "favicon" /\ UNCHANGED <<site, page_count, arena>>
       \/ Return1
    /\ SiteFrame

\* install_favicon: the two fopen are checked, the fwrite is not.
InstallFavicon ==
    /\ pc = "favicon"
    /\ \/ pc' = "opendir" /\ UNCHANGED <<site, page_count, arena>>
       \/ /\ pc' = "opendir"
          /\ site' = [site EXCEPT !.failed = TRUE]
          /\ UNCHANGED <<page_count, arena>>
       \/ Return1
    /\ SiteFrame

OpenContentDir ==
    /\ pc = "opendir"
    /\ \/ pc' = "readdir" /\ UNCHANGED <<site, page_count, arena>>
       \/ Return1
    /\ SiteFrame

\* readdir up to the next entry that is a directory, and import_pages up to
\* its second pass: the directory has page_count .txt files.  No two entries
\* have the same name, so posts comes once.
ReadDir ==
    /\ pc = "readdir"
    /\ \/ pc' = "exit" /\ arena' = Arena0 /\ UNCHANGED <<site, page_count>>
       \/ Return1
       \/ \E dname \in DirNames, n \in 0..MaxFiles :
            /\ dname = Posts => ~site.posts_seen
            /\ site' = [site EXCEPT !.dname = dname,
                                    !.posts_seen = @ \/ dname = Posts,
                                    !.idx = 0, !.files = <<>>, !.imported = <<>>]
            /\ page_count' = n
            /\ pc' = "import"
            /\ UNCHANGED arena
    /\ SiteFrame

\* One .txt file of the second pass.  read_file lays the bytes of the file
\* after the Page array, where the Page after the last may lie next time.
ImportFile ==
    /\ pc = "import" /\ site.idx < page_count
    /\ \/ Return1
       \/ \E file \in SiteFiles, spill \in BOOLEAN :
            /\ arena' = [k \in 1..MaxFiles |->
                           IF k = site.idx + 1 THEN import_file(arena[k], file)
                           ELSE IF k = page_count + 1 /\ site.idx = 0 /\ spill
                                THEN JunkPage
                           ELSE arena[k]]
            /\ site' = [site EXCEPT !.idx = @ + 1, !.files = Append(@, file)]
            /\ pc' = pc
            /\ UNCHANGED page_count
    /\ SiteFrame

\* import_pages returns page_count; main gives up when it is 0.
ImportDone ==
    /\ pc = "import" /\ site.idx = page_count
    /\ IF page_count = 0
       THEN Return1
       ELSE /\ site' = [site EXCEPT !.imported = SubSeq(arena, 1, page_count)]
            /\ pc' = "mkdir"
            /\ UNCHANGED <<page_count, arena>>
    /\ SiteFrame

\* The output directory is made, and build_pages is called.
MakeOutputDir ==
    /\ pc = "mkdir"
    /\ \/ pc' = "next" /\ i' = 0 /\ UNCHANGED <<site, page_count, arena>>
       \/ Return1 /\ i' = 0
    /\ UNCHANGED <<page, cursor, state, out, dispatched, call, ret>>

\* build_pages: fopen succeeds and build_page is entered with pages[i].
OpenSitePage ==
    /\ pc = "next" /\ i < page_count
    /\ page' = arena[i + 1]
    /\ pc' = "head"
    /\ cursor' = 0
    /\ state' = fresh_state(state)
    /\ out' = <<>>
    /\ dispatched' = <<>>
    /\ UNCHANGED <<i, page_count, call, ret, arena, site>>

\* The sink of the page reports an error: a write of build_page to fout
\* fails (fprintf and fputc return a negative value).  build_page looks at no
\* such value and is void, so nothing but the record of the failure changes.
SinkWriteFails ==
    /\ pc \in { "head", "loop" }
    /\ ~site.sink_failed
    /\ site' = [site EXCEPT !.sink_failed = TRUE]
    /\ UNCHANGED <<pc, page_count, arena>>
    /\ SiteFrame

\* build_pages returned false: main returns 1.
PagesFailed ==
    /\ pc = "failed"
    /\ Return1
    /\ i' = 0
    /\ UNCHANGED <<page, cursor, state, out, dispatched, call, ret>>

\* build_pages returned true, and the directory is not posts.
SkipIndex ==
    /\ pc = "done" /\ site.dname # Posts
    /\ pc' = "clear"
    /\ UNCHANGED <<site, page_count, arena>>
    /\ SiteFrame

\* build_pages returned true for posts: the pages are sorted and build_index
\* is called.  What build_index returns is not looked at.
SortAndOpenIndex ==
    /\ pc = "done" /\ site.dname = Posts
    /\ \E sorted \in qsort(SubSeq(arena, 1, page_count), page_count) :
          arena' = [k \in 1..MaxFiles |-> IF k <= page_count THEN sorted[k] ELSE arena[k]]
    /\ \/ /\ pc' = "index"
          /\ site' = [site EXCEPT !.idx = 0, !.index = <<>>, !.formatted_date = <<>>]
       \/ /\ pc' = "clear"
          /\ site' = [site EXCEPT !.failed = TRUE]
    /\ UNCHANGED page_count
    /\ SiteFrame

\* One row of the index.  formatted_date is written by format_date_abbr, or
\* emptied when that returns false, only if the date is not empty.
IndexRow ==
    /\ pc = "index" /\ site.idx < page_count
    /\ LET row == arena[site.idx + 1] IN
       \E o \in (IF row.date # <<>> THEN format_date_abbr(row.date)
                 ELSE { [status |-> "true", out |-> cell] :
                          cell \in Uninitialised(site.formatted_date) }) :
          IF o.status = "abort"
          THEN pc' = "abort" /\ site' = site
          ELSE LET formatted_date == IF o.status = "true" THEN o.out ELSE <<>> IN
               /\ site' = [site EXCEPT
                             !.idx = @ + 1,
                             !.formatted_date = formatted_date,
                             !.index = Append(@, [date |-> formatted_date,
                                                  slug |-> row.slug,
                                                  title |-> row.title])]
               /\ pc' = pc
    /\ UNCHANGED <<page_count, arena>>
    /\ SiteFrame

\* The table is closed and build_index returns true; no fprintf was checked.
CloseIndex ==
    /\ pc = "index" /\ site.idx = page_count
    /\ pc' = "indexed"
    /\ \/ UNCHANGED site
       \/ site' = [site EXCEPT !.failed = TRUE]
    /\ UNCHANGED <<page_count, arena>>
    /\ SiteFrame

\* arena_clear: used = 0.  The memory keeps its bytes; the locals of the
\* loop body are gone.
ArenaClear ==
    /\ pc \in { "clear", "indexed" }
    /\ pc' = "readdir"
    /\ site' = NoDirectory(site)
    /\ page_count' = 0
    /\ i' = 0
    /\ UNCHANGED <<arena, page, cursor, state, out, dispatched, call, ret>>

NextSite ==
    \/ PreparePublicDir \/ InstallFavicon \/ OpenContentDir
    \/ ReadDir \/ ImportFile \/ ImportDone \/ MakeOutputDir
    \/ OpenSitePage \/ OpenFails \/ ReturnTrue \/ WriteOpening \/ SinkWriteFails
    \/ Finish \/ ClosePage
    \/ PagesFailed \/ SkipIndex \/ SortAndOpenIndex \/ IndexRow \/ CloseIndex
    \/ ArenaClear

SpecSite == InitSite /\ [][NextSite]_vars

(***************************************************************************)
(* Reading the written pieces.                                             *)
(***************************************************************************)
Count(seq, S) == Cardinality({ k \in DOMAIN seq : seq[k] \in S })

\* The ids a note written so far can carry, and the first piece (the label)
\* of a note by its id.
IdRange == 0..(Len(out) + 1)
LabelPieces ==
    { sidenote_open(k)[1] : k \in IdRange } \cup { margin_note_open(k)[1] : k \in IdRange }

TagKinds == { "section", "p", "ul", "ol", "li", "pre", "code",
              "h1", "h2", "h3", "h4", "h5", "h6",
              "strong", "em", "mark", "span", "label" }

\* The pieces that hold an opening tag of a kind, and those that hold a closing one.
OpenPieces(kind, labels) ==
    CASE kind = "section" -> { "<section>\n" }
      [] kind = "p" -> { "<p>", "<p class=\"subtitle\">" }
      [] kind = "ul" -> { "<ul>\n" }
      [] kind = "ol" -> { "<ol>\n" }
      [] kind = "li" -> { "<li>" }
      [] kind = "pre" -> { "<pre><code>" }
      [] kind = "code" -> { "<pre><code>", "<code>" }
      [] kind \in { "h1", "h2", "h3", "h4", "h5", "h6" } -> { "<" \o kind \o ">" }
      [] kind \in { "strong", "em", "mark" } -> { "<" \o kind \o ">" }
      [] kind = "span" -> { "<span class=\"sidenote\">", "<span class=\"marginnote\">" }
      [] kind = "label" -> labels

ClosePieces(kind, labels) ==
    CASE kind = "section" -> { "</section>\n" }
      [] kind = "p" -> { "</p>\n" }
      [] kind = "ul" -> { "</ul>\n" }
      [] kind = "ol" -> { "</ol>\n" }
      [] kind = "li" -> { "</li>\n" }
      [] kind = "pre" -> { "</code></pre>\n" }
      [] kind = "code" -> { "</code></pre>\n", "</code>" }
      [] kind \in { "h1", "h2", "h3", "h4", "h5", "h6" } -> { "</" \o kind \o ">\n" }
      [] kind \in { "strong", "em", "mark" } -> { "</" \o kind \o ">" }
      [] kind = "span" -> { "</span>" }
      [] kind = "label" -> labels

\* No text handed to the inline renderer holds a raw angle bracket: every
\* '<' and '>' of the body is inside a code block.
NoRawAngles ==
    \A k \in DOMAIN dispatched :
        \A j \in DOMAIN dispatched[k].text : dispatched[k].text[j] \notin { "<", ">" }

(***************************************************************************)
(* C1.  In the finished output of build_page, for a body without raw '<'   *)
(* or '>' outside code blocks, each kind of tag is opened as often as it   *)
(* is closed.                                                              *)
(***************************************************************************)
C1_TagsBalanced ==
    (pc = "built" /\ NoRawAngles) =>
        LET labels == LabelPieces IN
        \A kind \in TagKinds :
            Count(out, OpenPieces(kind, labels)) = Count(out, ClosePieces(kind, labels))

\* A finished page in which a section, a list closed only by the end of the
\* body, a toggle closed only by the end of its slice, and a note were written.
C1_Witness ==
    /\ pc = "built" /\ NoRawAngles
    /\ Count(out, { "<section>\n" }) >= 1
    /\ Count(out, { "<ul>\n" }) >= 1
    /\ Count(out, { "<strong>" }) >= 1
    /\ Count(out, { "<span class=\"sidenote\">", "<span class=\"marginnote\">" }) >= 1
    /\ dispatched # <<>> /\ dispatched[Len(dispatched)].kind = "ul"

(***************************************************************************)
(* C2.  The ids of the notes written to a page are, in the order written,  *)
(* 1, 2, ..., k (sn- and mn- ids from the one counter), in every page that *)
(* build_pages builds.                                                     *)
(***************************************************************************)
\* The notes in the order written: for each label piece, where it is, the
\* id it carries, and whether the checkbox of the same kind and id follows it.
Notes ==
    LET sn == [k \in IdRange |-> sidenote_open(k)]
        mn == [k \in IdRange |-> margin_note_open(k)]
        labels == { sn[k][1] : k \in IdRange } \cup { mn[k][1] : k \in IdRange }
        at == SelectSeq([p \in DOMAIN out |-> p], LAMBDA p : out[p] \in labels)
    IN  [j \in DOMAIN at |->
            LET p == at[j]
                k == CHOOSE k \in IdRange : out[p] \in { sn[k][1], mn[k][1] }
                open == IF out[p] = sn[k][1] THEN sn[k] ELSE mn[k]
            IN  [at |-> p, id |-> k,
                 paired |-> p < Len(out) /\ out[p + 1] = open[2]]]

C2_NoteIdsInSequence ==
    pc \in { "head", "loop", "hang", "built" } =>
        LET notes == Notes IN
        /\ \A j \in DOMAIN notes : notes[j].id = j /\ notes[j].paired
        /\ state.sidenote_id = Len(notes)

\* The second page of a run is finished and holds at least three notes, of
\* both kinds, one of them nested in another.
C2_Witness ==
    /\ pc = "built" /\ i = 1
    /\ Len(Notes) >= 3
    /\ \E p \in DOMAIN out : out[p] = sidenote_open(1)[1]
    /\ \E p \in DOMAIN out : out[p] = margin_note_open(2)[1]
    /\ \E p \in DOMAIN out :
          /\ p + 4 <= Len(out)
          /\ out[p] = "<span class=\"sidenote\">"
          /\ out[p + 4] = "<span class=\"marginnote\">"

(***************************************************************************)
(* The recognition rules for a line, stated on the line alone.             *)
(***************************************************************************)
\* How many bytes at the start of the line are in S.
LeadingRun(line, S) ==
    LET others == { n \in DOMAIN line : line[n] \notin S }
    IN  IF others = {} THEN Len(line)
        ELSE (CHOOSE n \in others : \A m \in others : n <= m) - 1

StartsWith(line, prefix) ==
    Len(line) >= Len(prefix) /\ SubSeq(line, 1, Len(prefix)) = prefix

RuleBlank(line) == \A n \in DOMAIN line : line[n] \in { " ", "\t" }
RuleFence(line) == StartsWith(line, <<Backtick, Backtick, Backtick>>)
RuleHeading(line) ==
    LET h == LeadingRun(line, { "#" })
    IN  h >= 1 /\ h <= 6 /\ h < Len(line) /\ line[h + 1] = " "
RuleUnordered(line) == StartsWith(line, <<"-", " ">>)
RuleOrdered(line) ==
    LET d == LeadingRun(line, Range(DigitSeq))
    IN  d >= 1 /\ d + 2 <= Len(line) /\ line[d + 1] = "." /\ line[d + 2] = " "

RuleKinds(line) ==
    { k \in { "blank", "fence", "heading", "ul", "ol", "paragraph" } :
        CASE k = "blank" -> RuleBlank(line)
          [] k = "fence" -> RuleFence(line)
          [] k = "heading" -> RuleHeading(line)
          [] k = "ul" -> RuleUnordered(line)
          [] k = "ol" -> RuleOrdered(line)
          [] k = "paragraph" -> ~(RuleBlank(line) \/ RuleFence(line) \/ RuleHeading(line)
                                  \/ RuleUnordered(line) \/ RuleOrdered(line)) }

\* The lines of a body: where each starts, where it ends, its bytes.
LineStarts(content) ==
    { s \in 0..(Len(content) - 1) : s = 0 \/ content[s] = "\n" }
LineEnd(content, s) ==
    LET ends == { n \in s..Len(content) : n = Len(content) \/ content[n + 1] = "\n" }
    IN  CHOOSE n \in ends : \A m \in ends : n <= m
BodyLine(content, s) == SubSeq(content, s + 1, LineEnd(content, s))
Least(S) == CHOOSE n \in S : \A m \in S : n <= m
Greatest(S) == CHOOSE n \in S : \A m \in S : n >= m

\* The closing tag of the list that is open, if one is.
ListCloser(block) ==
    IF block = "UNORDERED_LIST" THEN <<"</ul>\n">>
    ELSE IF block = "ORDERED_LIST" THEN <<"</ol>\n">>
    ELSE <<>>

InBody == pc \in { "loop", "hang", "built" }

(***************************************************************************)
(* C3.  At most one section is open after any prefix of the body.  A       *)
(* section is opened exactly at each level-2 heading, directly before its  *)
(* h2 and after the open list and the open section were closed; no other   *)
(* line opens or closes one; nothing before the first level-2 heading is   *)
(* in a section; the end of the body closes the last one.                  *)
(***************************************************************************)
SectionPieces == { "<section>\n", "</section>\n" }

IsLevel2(e) ==
    e.kind = "heading" /\ LeadingRun(BodyLine(page.content, e.at), { "#" }) = 2

C3_OneSectionAtATime ==
    InBody =>
        /\ Count(out, { "<section>\n" }) - Count(out, { "</section>\n" })
              = (IF state.in_section THEN 1 ELSE 0)
        /\ pc = "built" => ~state.in_section
        /\ Count(out, { "<section>\n" })
              = Cardinality({ k \in DOMAIN dispatched : IsLevel2(dispatched[k]) })
        /\ \A k \in DOMAIN dispatched :
              LET e == dispatched[k]
                  closers == ListCloser(e.before.block)
                             \o (IF e.before.in_section THEN <<"</section>\n">> ELSE <<>>)
                  n == Len(closers)
              IN  IF IsLevel2(e)
                  THEN /\ Len(e.wrote) >= n + 2
                       /\ SubSeq(e.wrote, 1, n) = closers
                       /\ e.wrote[n + 1] = "<section>\n"
                       /\ e.wrote[n + 2] = "<h2>"
                       /\ Count(e.wrote, SectionPieces) = (IF e.before.in_section THEN 2 ELSE 1)
                       /\ e.after.in_section
                  ELSE /\ Count(e.wrote, SectionPieces) = 0
                       /\ e.after.in_section = e.before.in_section
        /\ \A k \in DOMAIN dispatched :
              (\A j \in 1..k : ~IsLevel2(dispatched[j])) => ~dispatched[k].after.in_section

\* A finished page with two level-2 headings, the second met while a list
\* was open in the first section.
C3_Witness ==
    /\ pc = "built"
    /\ Count(out, { "<section>\n" }) = 2
    /\ Count(out, { "</section>\n" }) = 2
    /\ \E k \in DOMAIN dispatched :
          /\ IsLevel2(dispatched[k])
          /\ dispatched[k].before.in_section
          /\ dispatched[k].before.block # "NONE"

(***************************************************************************)
(* C4.  Every li is written while the list of its line's kind is open; a   *)
(* list is opened only at an item line whose kind is not the open list,    *)
(* after the open list of the other kind was closed; every blank, fence,   *)
(* heading and paragraph line closes the open list before it writes        *)
(* anything else.  So each maximal run of item lines of one kind gives one *)
(* list with one li for each line.                                         *)
(***************************************************************************)
ListTags == { "<ul>\n", "<ol>\n", "</ul>\n", "</ol>\n" }
ItemTags == { "<li>", "</li>\n" }

BlockOf(kind) == IF kind = "ul" THEN "UNORDERED_LIST" ELSE "ORDERED_LIST"
OpenTagOf(kind) == IF kind = "ul" THEN "<ul>\n" ELSE "<ol>\n"
CloseTagOf(kind) == IF kind = "ul" THEN "</ul>\n" ELSE "</ol>\n"

\* The iterations that start a run of item lines of a kind.
RunStarts(kind) ==
    { k \in DOMAIN dispatched :
        dispatched[k].kind = kind /\ (k = 1 \/ dispatched[k - 1].kind # kind) }

C4_ListsFollowItemRuns ==
    InBody =>
        /\ \A k \in DOMAIN dispatched :
              LET e == dispatched[k]
                  closer == ListCloser(e.before.block)
              IN  IF e.kind \in { "ul", "ol" }
                  THEN LET opening == IF e.before.block = BlockOf(e.kind) THEN <<>>
                                      ELSE closer \o <<OpenTagOf(e.kind)>>
                           n == Len(opening)
                       IN  /\ RuleKinds(BodyLine(page.content, e.at)) = { e.kind }
                           /\ SubSeq(e.wrote, 1, n) = opening
                           /\ e.wrote[n + 1] = "<li>"
                           /\ e.wrote[Len(e.wrote)] = "</li>\n"
                           /\ Count(e.wrote, { "<li>" }) = 1
                           /\ Count(e.wrote, { "</li>\n" }) = 1
                           /\ Count(e.wrote, ListTags) = n
                           /\ e.after.block = BlockOf(e.kind)
                  ELSE /\ SubSeq(e.wrote, 1, Len(closer)) = closer
                       /\ Count(e.wrote, ListTags \cup ItemTags) = Len(closer)
                       /\ e.after.block = "NONE"
        /\ \A kind \in { "ul", "ol" } :
              /\ Count(out, { OpenTagOf(kind) }) = Cardinality(RunStarts(kind))
              /\ Count(out, { OpenTagOf(kind) }) - Count(out, { CloseTagOf(kind) })
                    = (IF state.block = BlockOf(kind) THEN 1 ELSE 0)
        /\ Count(out, { "<li>" })
              = Cardinality({ k \in DOMAIN dispatched : dispatched[k].kind \in { "ul", "ol" } })
        /\ pc = "built" => state.block = "NONE"

\* A finished page: two unordered items in one list, then an ordered item
\* whose list only the end of the body closes.
C4_Witness ==
    /\ pc = "built"
    /\ Len(dispatched) = 3
    /\ dispatched[1].kind = "ul" /\ dispatched[2].kind = "ul" /\ dispatched[3].kind = "ol"
    /\ Count(out, { "<ul>\n" }) = 1 /\ Count(out, { "<ol>\n" }) = 1
    /\ Count(out, { "<li>" }) = 3

(***************************************************************************)
(* C5.  A maximal run of paragraph lines gives one p.  The text rendered   *)
(* is the bytes of those lines, in order, joined by single spaces (their   *)
(* joined length being below the size of the scratch buffer); the cursor   *)
(* is left at the first blank, fence, heading or item line after the run,  *)
(* or at the end of the body.                                              *)
(***************************************************************************)
IsParagraphLine(content, s) == RuleKinds(BodyLine(content, s)) = { "paragraph" }

\* Where the run of paragraph lines that starts at line s ends: the start of
\* the first line of another kind, or the end of the body.
RunEnd(content, s) ==
    LET breaks == { t \in LineStarts(content) : t >= s /\ ~IsParagraphLine(content, t) }
    IN  IF breaks = {} THEN Len(content) ELSE Least(breaks)

RECURSIVE JoinedBySpaces(_, _)
JoinedBySpaces(content, starts) ==
    IF starts = {} THEN <<>>
    ELSE LET t == Greatest(starts)
             rest == starts \ { t }
         IN  IF rest = {} THEN BodyLine(content, t)
             ELSE JoinedBySpaces(content, rest) \o <<" ">> \o BodyLine(content, t)

RunText(content, s) ==
    JoinedBySpaces(content, { t \in LineStarts(content) : t >= s /\ t < RunEnd(content, s) })

C5_ParagraphIsTheRun ==
    InBody =>
        /\ \A k \in DOMAIN dispatched :
              LET e == dispatched[k]
              IN  e.kind = "paragraph" =>
                    /\ IsParagraphLine(page.content, e.at)
                    /\ k > 1 => dispatched[k - 1].kind # "paragraph"
                    /\ Len(RunText(page.content, e.at)) < BUFFER_SIZE
                          => e.text = RunText(page.content, e.at)
                    /\ e.next = RunEnd(page.content, e.at)
                    /\ Count(e.wrote, { "<p>" }) = 1
                    /\ Count(e.wrote, { "</p>\n" }) = 1
                    /\ e.wrote[Len(e.wrote)] = "</p>\n"
        /\ Count(out, { "<p>" })
              = Cardinality({ k \in DOMAIN dispatched : dispatched[k].kind = "paragraph" })

\* A paragraph of two lines that stops before a list item, which the next
\* iteration takes.
C5_Witness ==
    /\ pc = "built"
    /\ Len(dispatched) = 2
    /\ dispatched[1].kind = "paragraph"
    /\ Count(dispatched[1].text, { " " }) = 1
    /\ Len(dispatched[1].text) > 3
    /\ dispatched[2].kind = "ul"
    /\ dispatched[2].at = dispatched[1].next

(***************************************************************************)
(* C6.  Fence lines open and close code blocks in turn.  An opening fence  *)
(* gives one pre/code element, with or without a closing fence before the  *)
(* end of the body; the lines between are not classified and not rendered: *)
(* no iteration starts at one of them, and the block leaves in_section,    *)
(* the note counter and (the fence having closed the list) the list state  *)
(* as they were, and writes no tag.                                        *)
(***************************************************************************)
\* The fence lines of the body, in order.
FenceStarts(content) == { s \in LineStarts(content) : RuleFence(BodyLine(content, s)) }
NthFence(content, n) ==
    CHOOSE s \in FenceStarts(content) :
        Cardinality({ t \in FenceStarts(content) : t < s }) = n - 1

FenceEntries == SelectSeq(dispatched, LAMBDA e : e.kind = "fence")

Entities == { "&lt;", "&gt;", "&amp;" }

\* The start of the line after the line that starts at s.
AfterLine(content, s) ==
    IF LineEnd(content, s) < Len(content) THEN LineEnd(content, s) + 1 ELSE Len(content)

C6_FencesAlternate ==
    InBody =>
        LET fences == FenceEntries
            content == page.content
        IN  /\ \A j \in DOMAIN fences :
                  LET e == fences[j]
                      closer == ListCloser(e.before.block)
                      n == Len(closer)
                      inner == SubSeq(e.wrote, n + 2, Len(e.wrote) - 1)
                  IN  /\ 2 * j - 1 <= Cardinality(FenceStarts(content))
                      /\ e.at = NthFence(content, 2 * j - 1)
                      /\ e.next = IF 2 * j <= Cardinality(FenceStarts(content))
                                  THEN AfterLine(content, NthFence(content, 2 * j))
                                  ELSE Len(content)
                      /\ SubSeq(e.wrote, 1, n) = closer
                      /\ e.wrote[n + 1] = "<pre><code>"
                      /\ e.wrote[Len(e.wrote)] = "</code></pre>\n"
                      /\ \A q \in DOMAIN inner :
                            \/ inner[q] \in Entities
                            \/ /\ inner[q] \notin { "<", ">", "&" }
                               /\ \E r \in (e.at + 1)..e.next : content[r] = inner[q]
                      /\ e.after = [e.before EXCEPT !.block = "NONE"]
                      /\ \A k \in DOMAIN dispatched :
                            ~(dispatched[k].at > e.at /\ dispatched[k].at < e.next)
            /\ Count(out, { "<pre><code>" }) = Len(fences)
            /\ Count(out, { "</code></pre>\n" }) = Len(fences)
            /\ \A k \in DOMAIN dispatched :
                  dispatched[k].kind # "fence" =>
                      Count(dispatched[k].wrote, { "<pre><code>", "</code></pre>\n" }) = 0

\* A finished page in which a code block, opened in a section and closed
\* only by the end of the body, holds a heading line with a note in it.
C6_Witness ==
    /\ pc = "built"
    /\ Len(FenceEntries) = 1
    /\ FenceEntries[1].before.in_section
    /\ FenceEntries[1].next = Len(page.content)
    /\ \E s \in LineStarts(page.content) :
          /\ s > FenceEntries[1].at
          /\ RuleKinds(BodyLine(page.content, s)) = { "heading" }
          /\ \E r \in (s + 1)..Len(page.content) : page.content[r] = "^"
    /\ Cardinality(FenceStarts(page.content)) = 1

(***************************************************************************)
(* C7.  For every line exactly one kind applies by the rules, and the      *)
(* dispatch of build_page chooses that kind.                               *)
(***************************************************************************)
C7_DispatchFollowsRules ==
    call.fn = "dispatch" =>
        /\ Cardinality(RuleKinds(call.line)) = 1
        /\ pc # "helper" => (pc = "returned" /\ RuleKinds(call.line) = { ret.value })

(***************************************************************************)
(* C8.  For every title and every output size from 2 on, the output of     *)
(* slugify holds only a-z, 0-9 and '-', does not begin or end with '-',    *)
(* holds no two '-' in a row, and is at most output_size - 1 long.         *)
(***************************************************************************)
SlugAlphabet == Range(LowerSeq) \cup Range(DigitSeq) \cup { "-" }

WellFormedSlug(slug, output_size) ==
    /\ \A k \in DOMAIN slug : slug[k] \in SlugAlphabet
    /\ slug # <<>> => slug[1] # "-" /\ slug[Len(slug)] # "-"
    /\ \A k \in 1..(Len(slug) - 1) : ~(slug[k] = "-" /\ slug[k + 1] = "-")
    /\ Len(slug) <= output_size - 1

C8_SlugIsWellFormed ==
    (call.fn = "slugify" /\ pc = "returned") => WellFormedSlug(ret.value, call.output_size)

\* A title cut off right after a dash: the dash is taken off as well.
C8_Witness ==
    /\ call.fn = "slugify" /\ pc = "returned" /\ ~ret.again
    /\ call.output_size = 3
    /\ Len(call.input) = MaxTitleLen
    /\ SubSeq(call.input, 1, 4) = <<"-", "B", HighByte, "a">>
    /\ ret.value = <<"b">>

(***************************************************************************)
(* C9.  slugify is idempotent: slugify of its own output, for the same     *)
(* output size, is that output.                                            *)
(***************************************************************************)
C9_SlugifyIdempotent ==
    (call.fn = "slugify" /\ pc = "returned" /\ ret.again) => ret.value = ret.first

\* slugify was applied to the output it gave for a title that it changed and
\* cut off.
C9_Witness ==
    /\ call.fn = "slugify" /\ pc = "returned" /\ ret.again
    /\ Len(call.input) > call.output_size
    /\ ret.first # <<>>
    /\ ret.first # SubSeq(call.input, 1, Len(ret.first))
    /\ \E k \in DOMAIN ret.first : ret.first[k] = "-"

(***************************************************************************)
(* C10.  format_date returns false, and does not end the process, for      *)
(* every text that is not four digits, '-', two digits, '-', two digits,   *)
(* and for every month outside 1..12; it returns true only for the rest.   *)
(***************************************************************************)
WellShapedDate(t) ==
    /\ Len(t) = 10
    /\ \A k \in { 1, 2, 3, 4, 6, 7, 9, 10 } : t[k] \in Range(DigitSeq)
    /\ t[5] = "-" /\ t[8] = "-"

MonthOf(t) == 10 * DigitValue(t[6]) + DigitValue(t[7])

ValidDate(t) == WellShapedDate(t) /\ MonthOf(t) >= 1 /\ MonthOf(t) <= 12

C10_FailsOnBadDates ==
    (call.fn = "format_date" /\ pc # "helper") =>
        /\ pc = "returned"
        /\ ret.status = (IF ValidDate(call.iso_date) THEN "true" ELSE "false")

(***************************************************************************)
(* C13.  build_page terminates on every finite body: no call of a line     *)
(* classifier fails to return, and every iteration of the main loop moves  *)
(* the cursor forward by at least one byte and not past the end of the     *)
(* body, also for lines that begin with more than 255 '#'.                 *)
(***************************************************************************)
C13_BuildPageTerminates ==
    InBody =>
        /\ pc # "hang"
        /\ cursor <= Len(page.content)
        /\ \A k \in DOMAIN dispatched :
              /\ dispatched[k].next > dispatched[k].at
              /\ dispatched[k].next <= Len(page.content)

(***************************************************************************)
(* C17.  For a page whose date is not empty and not valid (not of the      *)
(* shape YYYY-MM-DD, or with a month outside 1..12), build_page does not   *)
(* abort: it runs to completion, writes the whole document shell and the   *)
(* body, and the dateline holds no date text.                              *)
(***************************************************************************)
\* The bytes written between the opening of the dateline and its closing tag.
DatelineText ==
    LET opens == { k \in DOMAIN out : out[k] = "<p class=\"subtitle\">" }
        k == Least(opens)
        closes == { n \in DOMAIN out : n > k /\ out[n] = "</p>\n" }
    IN  SubSeq(out, k + 1, Least(closes) - 1)

HasDateline == \E k \in DOMAIN out : out[k] = "<p class=\"subtitle\">"

C17_InvalidDateDoesNotAbort ==
    (page.date # <<>> /\ ~ValidDate(page.date)) =>
        /\ pc # "abort"
        /\ pc \in { "loop", "hang", "built" } => HasDateline /\ DatelineText = <<>>
        /\ pc = "built" =>
              SubSeq(out, Len(out) - Len(page_closing) + 1, Len(out)) = page_closing

(***************************************************************************)
(* C14.  The tags build_page writes are properly nested: reading the       *)
(* output from left to right, every closing tag closes the element opened  *)
(* last among those still open.  This holds for the blocks (section, list, *)
(* li, p, pre, heading) and for what the inline renderer writes in a       *)
(* slice (strong, em, mark, note span), also when delimiters of different  *)
(* kinds interleave.                                                       *)
(***************************************************************************)
NestedKinds == TagKinds \ { "label", "code" }

\* The kind a piece opens or closes, or none.
OpenedBy(piece) ==
    LET kinds == { kind \in NestedKinds : piece \in OpenPieces(kind, {}) }
    IN  IF kinds = {} THEN "none" ELSE CHOOSE kind \in kinds : TRUE

ClosedBy(piece) ==
    LET kinds == { kind \in NestedKinds : piece \in ClosePieces(kind, {}) }
    IN  IF kinds = {} THEN "none" ELSE CHOOSE kind \in kinds : TRUE

\* Every closing tag closes the element opened last among those still open:
\* the last piece before it from which the depth rose to the depth it closes.
\* The depth after k pieces is the number of elements open then, every closing
\* tag taken to close one element.
ProperlyNested(pieces) ==
    LET opened == [n \in DOMAIN pieces |-> OpenedBy(pieces[n])]
        closed == [n \in DOMAIN pieces |-> ClosedBy(pieces[n])]
        tags == { n \in DOMAIN pieces : opened[n] # "none" \/ closed[n] # "none" }
        depth == [k \in 0..Len(pieces) |->
                    Cardinality({ n \in tags : n <= k /\ opened[n] # "none" })
                    - Cardinality({ n \in tags : n <= k /\ closed[n] # "none" })]
    IN  \A n \in tags :
            closed[n] # "none" =>
                LET below == { m \in tags : m < n /\ depth[m - 1] = depth[n - 1] - 1 }
                IN  /\ below # {}
                    /\ opened[Greatest(below)] = closed[n]

C14_ProperlyNested ==
    (pc \in { "built", "returned" } /\ NoRawAngles) => ProperlyNested(out)

(***************************************************************************)
(* C15.  The toggles belong to one call of the inline renderer.  A call    *)
(* starts with bold, italic and highlight closed.  Within the call the     *)
(* delimiters of one kind write the opening and the closing tag in turn,   *)
(* the opening tag first, whatever marks of other kinds lie between them.  *)
(* At the end of the slice the toggles still open are closed in the order  *)
(* </strong>, </em>, </mark>.  A note leaves the toggles of the call that  *)
(* meets it as they are, and its content is rendered as a slice of its own *)
(* that starts with the three toggles closed.                              *)
(***************************************************************************)
ToggleFmts == { "BOLD", "ITALIC", "HIGHLIGHT" }
NoteFmts == { "SIDENOTE", "MARGIN_NOTE" }

ToggleIndex(fmt) == CASE fmt = "BOLD" -> 1 [] fmt = "ITALIC" -> 2 [] fmt = "HIGHLIGHT" -> 3
ToggleElement(fmt) == <<"strong", "em", "mark">>[ToggleIndex(fmt)]

\* The iterations of the call so far that met a delimiter of a kind.
StepsOf(fmt) == { k \in DOMAIN ret.steps : ret.steps[k].fmt = fmt }

\* A toggle is open when its delimiter was met an odd number of times.
OpenAtEnd(fmt) == Cardinality(StepsOf(fmt)) % 2 = 1

\* What the iterations from k on wrote, in order.
RECURSIVE WroteFrom(_, _)
WroteFrom(steps, k) ==
    IF k > Len(steps) THEN <<>> ELSE steps[k].wrote \o WroteFrom(steps, k + 1)

\* An iteration that met a note opener with its closing bracket.
IsNoteStep(step) == step.fmt \in NoteFmts /\ step.next > step.at + 1

\* The bytes between the opening bracket of a note and its closing bracket.
NoteContent(step) ==
    SubSeq(call.text, step.at + (IF step.fmt = "SIDENOTE" THEN 3 ELSE 4), step.next - 1)

C15_TogglesPerCall ==
    pc \in { "inline", "returned" } =>
        /\ ret.steps = <<>> => Toggles(ret) = <<FALSE, FALSE, FALSE>>
        /\ \A k \in DOMAIN ret.steps :
              LET step == ret.steps[k] IN
              /\ k = 1 => step.before = <<FALSE, FALSE, FALSE>>
              /\ k > 1 => step.before = ret.steps[k - 1].after
              /\ step.fmt \in ToggleFmts =>
                    LET earlier == Cardinality({ n \in StepsOf(step.fmt) : n < k })
                        element == ToggleElement(step.fmt)
                    IN  /\ step.wrote = IF earlier % 2 = 0
                                        THEN << "<" \o element \o ">" >>
                                        ELSE << "</" \o element \o ">" >>
                        /\ \A fmt \in ToggleFmts \ { step.fmt } :
                              step.after[ToggleIndex(fmt)] = step.before[ToggleIndex(fmt)]
              /\ step.fmt \notin ToggleFmts => step.after = step.before
              /\ IsNoteStep(step) =>
                    LET content == NoteContent(step)
                        alone == write_formatted_content(content, Len(content), step.id_before + 1)
                    IN  /\ step.wrote = note_open(step.fmt, step.id_before + 1)
                                        \o alone.out \o <<"</span>">>
                        /\ step.id_after = alone.sidenote_id
        /\ pc = "returned" =>
              out = WroteFrom(ret.steps, 1)
                    \o (IF OpenAtEnd("BOLD") THEN <<"</strong>">> ELSE <<>>)
                    \o (IF OpenAtEnd("ITALIC") THEN <<"</em>">> ELSE <<>>)
                    \o (IF OpenAtEnd("HIGHLIGHT") THEN <<"</mark>">> ELSE <<>>)

\* A call that returned after it met a note while bold was open, the end of
\* the note's content closing a highlight of its own, and that closed bold
\* at the end of its slice.
C15_Witness ==
    /\ pc = "returned"
    /\ OpenAtEnd("BOLD")
    /\ \E k \in DOMAIN ret.steps :
          /\ IsNoteStep(ret.steps[k])
          /\ ret.steps[k].before[1]
          /\ \E n \in DOMAIN ret.steps[k].wrote : ret.steps[k].wrote[n] = "</mark>"

(***************************************************************************)
(* C16.  When the inline renderer meets a note opener, ^[ or ^-[ : the     *)
(* bracket depth is 1 after the opening bracket, one more after each [     *)
(* and one less after each ].  If some ] of the slice brings the depth to  *)
(* zero, the content of the note is the bytes before the first such ] and  *)
(* rendering goes on right after it.  If none does, the ^ alone is written *)
(* as it is, the note counter stays as it was, and rendering goes on with  *)
(* the byte after the ^.                                                   *)
(***************************************************************************)
\* The offset of the first byte after the opening bracket.
ContentStart(step) == step.at + (IF step.fmt = "SIDENOTE" THEN 2 ELSE 3)

\* The bracket depth after the byte at offset p, counted from offset start.
DepthAfter(text, start, p) ==
    1 + Cardinality({ q \in start..p : At(text, q) = "[" })
      - Cardinality({ q \in start..p : At(text, q) = "]" })

\* The offsets at which the depth is back to zero.
Closers(text, start) ==
    { p \in start..(Len(text) - 1) : DepthAfter(text, start, p) = 0 }

C16_NotesMatchBrackets ==
    pc \in { "inline", "returned" } =>
        /\ \A k \in DOMAIN ret.steps :
              /\ k > 1 => ret.steps[k].at = ret.steps[k - 1].next
              /\ k = Len(ret.steps) => ret.i = ret.steps[k].next
        /\ \A k \in DOMAIN ret.steps :
              LET step == ret.steps[k]
                  start == ContentStart(step)
                  closers == Closers(call.text, start)
              IN  step.fmt \in NoteFmts =>
                    IF closers # {}
                    THEN LET close == Least(closers)
                             content == SubSeq(call.text, start + 1, close)
                             id == step.id_before + 1
                             alone == write_formatted_content(content, Len(content), id)
                         IN  /\ step.wrote = note_open(step.fmt, id) \o alone.out
                                             \o <<"</span>">>
                             /\ step.id_after = alone.sidenote_id
                             /\ step.next = close + 1
                    ELSE /\ step.wrote = <<"^">>
                         /\ step.id_after = step.id_before
                         /\ step.next = step.at + 1

\* A call that returned after it wrote a note whose content holds a pair of
\* brackets, so that the first closing bracket is not the one that ends it.
C16_Witness ==
    /\ pc = "returned"
    /\ \E k \in DOMAIN ret.steps :
          LET step == ret.steps[k]
              start == ContentStart(step)
          IN  /\ step.fmt \in NoteFmts
              /\ step.id_after = step.id_before + 1
              /\ \E p \in start..(step.next - 2) : At(call.text, p) = "]"
              /\ At(call.text, step.next - 1) = "]"

(***************************************************************************)
(* C20.  When the inline renderer meets a backtick whose next byte exists  *)
(* and is no backtick: if a later backtick exists in the slice, it writes  *)
(* <code>, the bytes between the two backticks as they are (no mark and no *)
(* note opener among them is interpreted, the toggles and the note counter *)
(* stay as they were) and </code>, and goes on after the closing backtick. *)
(* If no later backtick exists, it writes that one backtick as it is and   *)
(* goes on with the next byte.                                             *)
(***************************************************************************)
\* An iteration that starts at a backtick followed by a byte that is none.
AtCodeOpener(step) ==
    /\ At(call.text, step.at) = Backtick
    /\ step.at + 1 < Len(call.text)
    /\ At(call.text, step.at + 1) # Backtick

LaterBackticks(step) ==
    { j \in (step.at + 1)..(Len(call.text) - 1) : At(call.text, j) = Backtick }

C20_CodeSpansAreVerbatim ==
    pc \in { "inline", "returned" } =>
        \A k \in DOMAIN ret.steps :
            LET step == ret.steps[k]
                later == LaterBackticks(step)
            IN  AtCodeOpener(step) =>
                  /\ step.after = step.before
                  /\ step.id_after = step.id_before
                  /\ k < Len(ret.steps) => ret.steps[k + 1].at = step.next
                  /\ k = Len(ret.steps) => ret.i = step.next
                  /\ IF later # {}
                     THEN /\ step.wrote = <<"<code>">>
                                 \o [n \in 1..(Least(later) - step.at - 1) |->
                                        At(call.text, step.at + n)]
                                 \o <<"</code>">>
                          /\ step.next = Least(later) + 1
                     ELSE /\ step.wrote = <<Backtick>>
                          /\ step.next = step.at + 1

\* A call that returned after it wrote, while bold was open, a code span that
\* holds an italic delimiter.
C20_Witness ==
    /\ pc = "returned"
    /\ \E k \in DOMAIN ret.steps :
          LET step == ret.steps[k] IN
          /\ AtCodeOpener(step)
          /\ step.before[1]
          /\ step.wrote = <<"<code>", "_", "_", "</code>">>

(***************************************************************************)
(* C11.  The archive index is written only for the directory named posts.  *)
(* It holds one row for each page import_pages returned, no more and no    *)
(* less, and the rows are in non-increasing order of the date strings of   *)
(* their pages: for rows a before b, the date of a is not less than the    *)
(* date of b byte by byte, in whatever order the files were listed.        *)
(***************************************************************************)
\* Row k of the index is the row of the page p: its slug and its title.
RowOf(k, p) == site.index[k].slug = p.slug /\ site.index[k].title = p.title

\* The ways to pair the n pages at base, one to one, with the pages imported.
Pairings(n) == { p \in [1..n -> 1..n] : \A a, b \in 1..n : a # b => p[a] # p[b] }

C11_IndexSortedForPosts ==
    /\ (pc \in { "index", "indexed" } \/ site.index # <<>>) => site.dname = Posts
    /\ pc \in { "index", "indexed" } =>
          /\ Len(site.index) = site.idx
          /\ \A k \in DOMAIN site.index : RowOf(k, arena[k])
    /\ pc = "indexed" =>
          /\ Len(site.index) = page_count
          /\ Len(site.imported) = page_count
          /\ \E p \in Pairings(page_count) :
                \A k \in 1..page_count : arena[k] = site.imported[p[k]]
          /\ \A a, b \in 1..page_count :
                a < b => strcmp(arena[a].date, arena[b].date) >= 0

\* An index of two rows whose files were listed the older first.
C11_Witness ==
    /\ pc = "indexed"
    /\ page_count = 2
    /\ site.imported[1].date = DateOlder
    /\ site.imported[2].date = DateValid
    /\ site.index[1].title = TitleA
    /\ site.index[2].title = TitleB

(***************************************************************************)
(* C12.  main returns zero only if every I/O step succeeded: creating      *)
(* ./public, copying the favicon, opening ./content, importing the pages   *)
(* of each directory, creating each output directory, opening each page's  *)
(* output file, and opening and writing ./public/index.html.               *)
(***************************************************************************)
C12_ExitZeroOnlyOnSuccess ==
    (pc = "exit" /\ site.exit_code = 0) => ~site.failed

(***************************************************************************)
(* C18.  For a page whose date is empty no date text is written: the page  *)
(* build_page writes has no subtitle element, and the row of the page in   *)
(* the index has an empty date cell, whatever the rows before it hold.     *)
(***************************************************************************)
C18_EmptyDateWritesNoDate ==
    /\ (pc \in { "loop", "built" } /\ page.date = <<>>) => ~HasDateline
    /\ pc \in { "index", "indexed" } =>
          \A k \in DOMAIN site.index :
              arena[k].date = <<>> => site.index[k].date = <<>>

(***************************************************************************)
(* C19.  In every directory of a run, the title, the slug and the date of  *)
(* a page are those of its own file: a page whose file has no title: line  *)
(* has an empty title and an empty slug, and one whose file has no date:   *)
(* line has an empty date, also where the memory of the Page array held    *)
(* the pages of an earlier directory before arena_clear.                   *)
(***************************************************************************)
\* The page a file stands for, read on its own.
OwnPage(file) == import_file(NoPage, file)

C19_PageFieldsAreItsFiles ==
    \A k \in DOMAIN site.imported : site.imported[k] = OwnPage(site.files[k])

(***************************************************************************)
(* C21.  build_page replaces '<', '>' and '&' by their entities in the     *)
(* text of a code block, whose other bytes are written as they are and in  *)
(* order, and nowhere else: the text of a paragraph, a heading or a list   *)
(* item, notes and inline code included, is written with these three       *)
(* bytes as they are.                                                      *)
(***************************************************************************)
Escapable == { "<", ">", "&" }

EntityOf(c) ==
    CASE c = "<" -> "&lt;"
      [] c = ">" -> "&gt;"
      [] c = "&" -> "&amp;"
      [] OTHER -> c

\* The bytes of the j-th code block of the body: what lies between the line
\* of its opening fence and its closing fence, or the end of the body,
\* less one newline at the end.
CodeBody(content, j) ==
    LET start == AfterLine(content, NthFence(content, 2 * j - 1))
        stop == IF 2 * j <= Cardinality(FenceStarts(content))
                THEN NthFence(content, 2 * j)
                ELSE Len(content)
        raw == SubSeq(content, start + 1, stop)
    IN  IF raw # <<>> /\ raw[Len(raw)] = "\n" THEN SubSeq(raw, 1, Len(raw) - 1) ELSE raw

\* What an iteration wrote between the opening and the closing of a code block.
CodeWritten(e) ==
    LET n == Len(ListCloser(e.before.block))
    IN  SubSeq(e.wrote, n + 2, Len(e.wrote) - 1)

EscapablesOf(pieces) == SelectSeq(pieces, LAMBDA x : x \in Escapable)

C21_EscapingOnlyInCodeBlocks ==
    InBody =>
        /\ \A j \in DOMAIN FenceEntries :
              LET body == CodeBody(page.content, j)
              IN  CodeWritten(FenceEntries[j]) = [k \in DOMAIN body |-> EntityOf(body[k])]
        /\ \A k \in DOMAIN dispatched :
              LET e == dispatched[k]
              IN  e.kind # "fence" =>
                    /\ Count(e.wrote, Entities) = 0
                    /\ EscapablesOf(e.wrote) = EscapablesOf(e.text)

\* A finished page whose list item holds an '&' in its text and whose code
\* block, after it, holds '<', '&' and '>'.
C21_Witness ==
    /\ pc = "built"
    /\ Len(FenceEntries) = 1
    /\ { "&lt;", "&amp;", "&gt;" } \subseteq Range(CodeWritten(FenceEntries[1]))
    /\ \E k \in DOMAIN dispatched :
          /\ dispatched[k].kind = "ol"
          /\ "&" \in Range(dispatched[k].text)
          /\ "&" \in Range(dispatched[k].wrote)

(***************************************************************************)
(* C24.  For the page with title Hello, date 2024-01-03 and an empty body, *)
(* build_page writes <h1>Hello</h1> and one subtitle element, whose text   *)
(* is the date with the full name of the month and the day padded with a   *)
(* space, January  3, 2024, and writes no <section> and no <p> for the     *)
(* body.                                                                   *)
(***************************************************************************)
DateAbbreviated == <<"J","a","n"," "," ","3",","," ","2","0","2","4">>
DateInFull == <<"J","a","n","u","a","r","y"," "," ","3",","," ","2","0","2","4">>

\* The pieces of the output from the first piece equal to from up to the
\* first piece equal to upto after it.
Between(from, upto) ==
    LET k == Least({ n \in DOMAIN out : out[n] = from })
    IN  SubSeq(out, k + 1, Least({ n \in DOMAIN out : n > k /\ out[n] = upto }) - 1)

EmptyBodyPage ==
    /\ pc = "built"
    /\ page.title = TitleHello
    /\ page.date = DateValid
    /\ page.content = <<>>

\* What the page holds but for the text of its subtitle.
EmptyBodyShape ==
    /\ Count(out, { "<h1>" }) = 1
    /\ Between("<h1>", "</h1>\n") = TitleHello
    /\ Count(out, { "<p class=\"subtitle\">" }) = 1
    /\ Count(out, { "<section>\n", "<p>" }) = 0

C24_EmptyBodyPageFullMonth ==
    EmptyBodyPage => (EmptyBodyShape /\ DatelineText = DateInFull)

\* C24 as the specification words it: the subtitle holds the abbreviated
\* name of the month, Jan  3, 2024.
C24_EmptyBodyPageAbbreviated ==
    EmptyBodyPage => (EmptyBodyShape /\ DatelineText = DateAbbreviated)

\* The page of the claim, built, with its one subtitle element.
C24_Witness ==
    /\ EmptyBodyPage
    /\ HasDateline
    /\ out[Len(out)] = "</html>\n"

(***************************************************************************)
(* C25.  At the start of every iteration of the main loop of build_page,   *)
(* at the end of every iteration and when the loop is left, at most one of *)
(* in_paragraph and block # NONE holds of the parse state.                 *)
(***************************************************************************)
AtMostOneOpen(st) == ~(st.in_paragraph /\ st.block # "NONE")

C25_ParagraphOrBlock ==
    InBody =>
        /\ \A k \in DOMAIN dispatched :
              AtMostOneOpen(dispatched[k].before) /\ AtMostOneOpen(dispatched[k].after)
        /\ AtMostOneOpen(state)

\* The loop is left with a list open, after an iteration that wrote a
\* paragraph and a later one that opened the list.
C25_Witness ==
    /\ pc = "loop"
    /\ cursor >= Len(page.content)
    /\ state.block # "NONE"
    /\ \E k \in DOMAIN dispatched :
          /\ dispatched[k].kind = "paragraph"
          /\ "<p>" \in Range(dispatched[k].wrote)
          /\ \E n \in DOMAIN dispatched :
                /\ n > k
                /\ dispatched[n].before.block = "NONE"
                /\ dispatched[n].after.block # "NONE"

(***************************************************************************)
(* C27.  For every line the main loop takes for a heading or a list item,  *)
(* the offset at which the text handed to the inline renderer begins (the  *)
(* level plus one for a heading, 2 for an unordered item, the number of    *)
(* digits plus 2 for an ordered item) is at most the length of the line:   *)
(* line_len - offset does not go below zero and the text lies in the line. *)
(***************************************************************************)
MarkerKinds == { "heading", "ul", "ol" }

\* The offset the rules give: past the hashes and the space, past the dash
\* and the space, past the digits, the dot and the space.
RuleOffset(kind, line) ==
    CASE kind = "heading" ->
           Cardinality({ k \in DOMAIN line : \A j \in 1..k : line[j] = "#" }) + 1
      [] kind = "ul" -> 2
      [] kind = "ol" ->
           Cardinality({ k \in DOMAIN line : \A j \in 1..k : line[j] \in Range(DigitSeq) }) + 2
      [] OTHER -> 0

C27_MarkerOffsetInLine ==
    (call.fn = "dispatch" /\ pc = "returned" /\ ret.value \in MarkerKinds) =>
        /\ ret.offset = RuleOffset(ret.value, call.line)
        /\ ret.offset >= 2
        /\ ret.offset <= Len(call.line)
        /\ Len(call.line) - ret.offset >= 0

\* An ordered item of two digits with nothing after the space: the offset is
\* the length of the line.
C27_Witness ==
    /\ call.fn = "dispatch" /\ pc = "returned"
    /\ ret.value = "ol"
    /\ ret.offset = 4
    /\ ret.offset = Len(call.line)

(***************************************************************************)
(* C26.  close_paragraph, close_list and close_section are idempotent in   *)
(* every parse state: called a second time directly after the first, each  *)
(* writes nothing and leaves the parse state as it is; and each, called    *)
(* when nothing of what it closes is open, writes nothing and changes      *)
(* nothing.  close_paragraph closes the paragraph, close_list the list,    *)
(* close_section the paragraph, the list and the section.                  *)
(***************************************************************************)
ListOpen(st) == st.block \in { "UNORDERED_LIST", "ORDERED_LIST" }

\* Whether something of what the closer closes is open in the state.
OpenFor(closer, st) ==
    CASE closer = "close_paragraph" -> st.in_paragraph
      [] closer = "close_list" -> ListOpen(st)
      [] closer = "close_section" -> st.in_paragraph \/ ListOpen(st) \/ st.in_section

IsPrefix(a, b) == Len(a) <= Len(b) /\ a = SubSeq(b, 1, Len(a))

\* The code block that starts at the start of the body: its text, up to the
\* first fence line or the end, less one newline at the end; and where the
\* body goes on after it.
FirstFence(content) == Least(FenceStarts(content))

CodeRaw(content) ==
    SubSeq(content, 1,
           IF FenceStarts(content) = {} THEN Len(content) ELSE FirstFence(content))

CodeFull(content) ==
    LET raw == CodeRaw(content)
    IN  IF raw # <<>> /\ raw[Len(raw)] = "\n" THEN SubSeq(raw, 1, Len(raw) - 1) ELSE raw

CodeEnd(content) ==
    IF FenceStarts(content) = {} THEN Len(content)
    ELSE AfterLine(content, FirstFence(content))

BlockFull ==
    IF call.fn = "collect_paragraph" THEN RunText(call.content, 0) ELSE CodeFull(call.content)

BlockEnd ==
    IF call.fn = "collect_paragraph" THEN RunEnd(call.content, 0) ELSE CodeEnd(call.content)

\* The bytes of the block as they lie in the body, last newline included.
BlockBytes ==
    IF call.fn = "collect_paragraph" THEN RunText(call.content, 0) ELSE CodeRaw(call.content)

Collected == call.fn \in { "collect_paragraph", "collect_code_block" } /\ pc = "returned"

C23_CollectionStaysInBuffer ==
    Collected =>
        /\ Len(ret.text) <= call.out_size - 1
        /\ Len(ret.text) + 1 <= call.out_size
        /\ IsPrefix(ret.text, BlockFull)
        /\ ret.cursor = BlockEnd
        /\ Len(BlockBytes) <= call.out_size - 1 => ret.text = BlockFull

\* A code block of two bytes that does not fit, with a line after its
\* closing fence: the text is cut after the first byte, and the cursor is
\* after the fence.
C23_Witness ==
    /\ Collected /\ call.fn = "collect_code_block"
    /\ FenceStarts(call.content) # {}
    /\ BlockEnd < Len(call.content)
    /\ ret.cursor = BlockEnd
    /\ Len(BlockFull) = 2
    /\ Len(ret.text) = 1
    /\ Len(ret.text) = call.out_size - 1

(***************************************************************************)
(* C22.  When a write to the output file of a page fails while the page is *)
(* rendered, build_page stops rendering the page and the failure reaches   *)
(* the caller: the page is not finished, build_pages does not return true, *)
(* and the process does not exit with 0.                                   *)
(***************************************************************************)
C22_WriteFailureIsPropagated ==
    site.sink_failed =>
        /\ pc \in { "head", "loop", "failed", "exit" }
        /\ pc = "exit" => site.exit_code # 0

====
